---- MODULE Spec2Model ----
(***************************************************************************)
(* A model of github.com/ucarion/saml: the response verifier Verify.       *)
(*                                                                         *)
(* Representation.                                                         *)
(*   - A samlResponse (the HTTP form field) is a record                    *)
(*       [encoding, payload]: encoding "std" is text that                  *)
(*     base64.StdEncoding accepts, "corrupt" is text it rejects; payload   *)
(*     is the byte string the text decodes to.                             *)
(*   - A byte string (data) is an XML document described element by        *)
(*     element.  An optional element or attribute is a sequence of length  *)
(*     0 (absent) or 1 (present, with its text).  `unknown` says whether   *)
(*     the document holds elements the Response model has no field for.    *)
(*     `signer` is the key whose private half produced a signature that    *)
(*     verifies over exactly these bytes ("nobody": no key does).          *)
(*     AssertionSignatureValue is the value of a signature placed inside   *)
(*     the Assertion element; Attributes is the sequence of Attribute      *)
(*     elements in document order.                                         *)
(*   - A time.Time is a natural number; 0 is the zero value time.Time{}.   *)
(*   - An error is a string; NoErr is the nil error.                       *)
(*   - A pointer to a certificate or to a URL is a sequence of length 0,   *)
(*     the nil pointer, or 1.                                              *)
(*   - Text that holds a URL is a record [wellFormed, base, RawQuery]:     *)
(*     wellFormed says whether url.Parse accepts it, base is what precedes *)
(*     the "?", RawQuery the sequence of characters after it.              *)
(*   - A string that the code takes apart (a query string, a relay state)  *)
(*     is a sequence of characters; an escape such as %26 is one           *)
(*     character of the sequence.                                          *)
(*   - The text of an X509Certificate element is a record [encoding, der], *)
(*     like a samlResponse; der is [wellFormed, PublicKey, NotAfter],      *)
(*     wellFormed saying whether x509.ParseCertificate accepts the bytes.  *)
(***************************************************************************)
EXTENDS Integers, Sequences, FiniteSets, TLC

VARIABLES
    args, pc, ret, collab,      \* one call of Verify
    md, mpc, mret,              \* one call of GetEntityIDCertificateAndRedirectURL
    hello, hsetup, hacs, hresp, \* the hello-world example
    conns, presp,               \* the persistent example
    frames, locals,             \* calls of Verify in several goroutines
    taccounts, tusers, tsessions, tnow, tsignup, tacs, treq   \* the todo app

verifyVars == <<args, pc, ret, collab>>

metaVars == <<md, mpc, mret>>

helloVars == <<hello, hsetup, hacs, hresp>>

persistVars == <<conns, presp>>

concVars == <<frames, locals>>

todoVars == <<taccounts, tusers, tsessions, tnow, tsignup, tacs, treq>>

vars == <<verifyVars, metaVars, helloVars, persistVars, concVars, todoVars>>

\* Largest instant of the model's clock; instants are 1..MaxTime.
MaxTime == 3

\* Largest number of SingleSignOnService entries of a metadata document.
MaxServices == 3

----------------------------------------------------------------------------
\* Errors

NoErr == "nil"

ErrResponseNotSigned == "saml: response not signed"

ErrAssertionExpired == "saml: assertion expired"

ErrInvalidIssuer == "saml: invalid issuer"

ErrInvalidRecipient == "saml: invalid recipient"

\* base64.CorruptInputError, returned by DecodeString
ErrCorruptInput == "base64: illegal base64 data"

\* *xml.SyntaxError, returned by xml.Unmarshal on malformed XML
ErrXMLSyntax == "xml: syntax error"

\* xml.UnmarshalError, returned when an element is not the expected one
ErrXMLUnmarshal == "xml: expected element type"

\* time.ParseError, returned by xml.Unmarshal on an unparsable time attribute
ErrTimeParse == "parsing time"

\* the error of Verify in github.com/ucarion/dsig
ErrSignature == "dsig: signature invalid"

----------------------------------------------------------------------------
\* The document model

ZeroTime == 0

\* Response{}: the zero value of Response
ZeroResponse ==
    [ Signature |-> [ SignatureValue |-> "" ],
      Assertion |->
        [ Issuer |-> [ Name |-> "" ],
          Subject |->
            [ NameID |-> [ Value |-> "" ],
              SubjectConfirmation |->
                [ SubjectConfirmationData |->
                    [ NotOnOrAfter |-> ZeroTime, Recipient |-> "" ] ] ],
          Conditions |-> [ NotBefore |-> ZeroTime, NotOnOrAfter |-> ZeroTime ],
          AttributeStatement |-> [ Attributes |-> << >> ] ] ]

\* The text of an optional element or attribute; "" when it is absent.
Chardata(opt) == IF Len(opt) = 0 THEN "" ELSE opt[1]

\* The text of a time attribute that does not parse as RFC 3339.
BadTime == -1

\* A time attribute: the zero time when absent, else the parsed instant.
TimeAttr(opt) == IF Len(opt) = 0 THEN ZeroTime ELSE opt[1]

TimeAttrOK(opt) == Len(opt) = 0 \/ opt[1] # BadTime

\* base64.StdEncoding.DecodeString
DecodeString(samlResponse) ==
    IF samlResponse.encoding = "std"
    THEN [ data |-> samlResponse.payload, err |-> NoErr ]
    ELSE [ data |-> samlResponse.payload, err |-> ErrCorruptInput ]

\* The elements whose absence leaves the issuer, recipient or window of the
\* Response unset: Issuer, SubjectConfirmationData and Conditions (a document
\* without Assertion lacks all of them).
IssuerAbsent(data) == Len(data.Issuer) = 0

ConfirmationDataAbsent(data) ==
    Len(data.Recipient) = 0 /\ Len(data.SCDNotOnOrAfter) = 0

ConditionsAbsent(data) ==
    Len(data.NotBefore) = 0 /\ Len(data.NotOnOrAfter) = 0

\* The error of xml.Unmarshal(data, &response): malformed XML, a root element
\* that is not Response, or a time attribute that does not parse.  An absent
\* element is no error.
UnmarshalError(data) ==
    IF data.syntax # "ok" THEN ErrXMLSyntax
    ELSE IF data.root # "Response" THEN ErrXMLUnmarshal
    ELSE IF ~ ( TimeAttrOK(data.NotBefore) /\ TimeAttrOK(data.NotOnOrAfter)
                /\ TimeAttrOK(data.SCDNotOnOrAfter) )
    THEN ErrTimeParse
    ELSE NoErr

\* Variant: a signature inside the Assertion stands in for a missing one on
\* the Response.
TopSignatureValue_Any(data) ==
    IF Chardata(data.SignatureValue) # "" THEN Chardata(data.SignatureValue)
    ELSE Chardata(data.AssertionSignatureValue)

\* Response.Signature: the Signature child of the Response element; the
\* Assertion type has no Signature field.
TopSignatureValue(data) == Chardata(data.SignatureValue)

\* Variant: the attributes are collected in reverse.
Attributes_Reversed(data) ==
    [ i \in 1 .. Len(data.Attributes) |->
        data.Attributes[Len(data.Attributes) + 1 - i] ]

\* AttributeStatement.Attributes: one entry per Attribute element, appended
\* in document order.
Attributes(data) == data.Attributes

\* xml.Unmarshal(data, &response): elements the model has no field for are
\* skipped, absent elements leave the zero value.
Unmarshal(data) ==
    IF UnmarshalError(data) # NoErr
    THEN [ response |-> ZeroResponse, err |-> UnmarshalError(data) ]
    ELSE [ response |->
             [ Signature |-> [ SignatureValue |-> TopSignatureValue(data) ],
               Assertion |->
                 [ Issuer |-> [ Name |-> Chardata(data.Issuer) ],
                   Subject |->
                     [ NameID |-> [ Value |-> Chardata(data.NameID) ],
                       SubjectConfirmation |->
                         [ SubjectConfirmationData |->
                             [ NotOnOrAfter |-> TimeAttr(data.SCDNotOnOrAfter),
                               Recipient |-> Chardata(data.Recipient) ] ] ],
                   Conditions |->
                     [ NotBefore |-> TimeAttr(data.NotBefore),
                       NotOnOrAfter |-> TimeAttr(data.NotOnOrAfter) ],
                   AttributeStatement |->
                     [ Attributes |-> Attributes(data) ] ] ],
           err |-> NoErr ]

----------------------------------------------------------------------------
\* The checks of Verify

\* Variant: the empty signature value is not rejected.
NotSigned_Never(response) == FALSE

\* response.Signature.SignatureValue == ""
NotSigned(response) == response.Signature.SignatureValue = ""

\* response.Signature.Verify(cert, decoder) of github.com/ucarion/dsig.  The
\* library is a dependency (go.mod) whose code is not part of the repository;
\* it is modelled by its contract: given a certificate and the raw document
\* bytes it verifies the enveloped signature, and it accepts exactly when the
\* signature over the bytes read from decoder was made with cert's key.  It is
\* given no time and, as Verify's documentation says, the validity period of
\* cert is not checked.
SignatureVerify(signature, cert, data) ==
    IF data.signer = cert.PublicKey THEN NoErr ELSE ErrSignature

\* time.Time.Before
Before(t, u) == t < u

\* time.Time.After
After(t, u) == t > u

\* Variant: the comparison is inverted.
IssuerMismatch_Inverted(response, issuer) ==
    response.Assertion.Issuer.Name = issuer

IssuerMismatch(response, issuer) == response.Assertion.Issuer.Name # issuer

RecipientMismatch(response, recipient) ==
    response.Assertion.Subject.SubjectConfirmation.SubjectConfirmationData.Recipient
        # recipient

\* Variant: !now.After(NotBefore), which rejects now == NotBefore.
NotYetValid_Inclusive(response, now) ==
    ~ After(now, response.Assertion.Conditions.NotBefore)

NotYetValid(response, now) ==
    Before(now, response.Assertion.Conditions.NotBefore)

ConditionsExpired(response, now) ==
    After(now, response.Assertion.Conditions.NotOnOrAfter)

\* Variant: the SubjectConfirmationData check is left out.
ConfirmationExpired_Never(response, now) == FALSE

ConfirmationExpired(response, now) ==
    After(now, response.Assertion.Subject.SubjectConfirmation.SubjectConfirmationData.NotOnOrAfter)

\* Variant: the time checks come before the issuer and recipient checks.
BusinessError_TimeFirst(response, issuer, recipient, now) ==
    IF NotYetValid(response, now) THEN ErrAssertionExpired
    ELSE IF ConditionsExpired(response, now) THEN ErrAssertionExpired
    ELSE IF ConfirmationExpired(response, now) THEN ErrAssertionExpired
    ELSE IF IssuerMismatch(response, issuer) THEN ErrInvalidIssuer
    ELSE IF RecipientMismatch(response, recipient) THEN ErrInvalidRecipient
    ELSE NoErr

\* Variant: the recipient check comes after the time checks.
BusinessError_RecipientLast(response, issuer, recipient, now) ==
    IF IssuerMismatch(response, issuer) THEN ErrInvalidIssuer
    ELSE IF NotYetValid(response, now) THEN ErrAssertionExpired
    ELSE IF ConditionsExpired(response, now) THEN ErrAssertionExpired
    ELSE IF ConfirmationExpired(response, now) THEN ErrAssertionExpired
    ELSE IF RecipientMismatch(response, recipient) THEN ErrInvalidRecipient
    ELSE NoErr

\* The issuer, recipient and time checks, in the order of the code.
BusinessError(response, issuer, recipient, now) ==
    IF IssuerMismatch(response, issuer) THEN ErrInvalidIssuer
    ELSE IF RecipientMismatch(response, recipient) THEN ErrInvalidRecipient
    ELSE IF NotYetValid(response, now) THEN ErrAssertionExpired
    ELSE IF ConditionsExpired(response, now) THEN ErrAssertionExpired
    ELSE IF ConfirmationExpired(response, now) THEN ErrAssertionExpired
    ELSE NoErr

\* What a failing return statement yields: return Response{}, err
Fail(e, calls) == [ response |-> ZeroResponse, err |-> e, calls |-> calls ]

\* Variant: a failed check returns the parsed response with its error.
Return_Partial(response, e, calls) ==
    [ response |-> response, err |-> e, calls |-> calls ]

\* The return statements that follow the signature check: Response{} with
\* the error of the failed check, or the parsed response with a nil error.
Return(response, e, calls) ==
    IF e # NoErr THEN Fail(e, calls)
    ELSE [ response |-> response, err |-> NoErr, calls |-> calls ]

\* Variant: the decoder reads a re-serialization of the parsed response,
\* which holds no element the Response model has no field for.
DecoderInput_Reserialized(data, response) == [ data EXCEPT !.unknown = FALSE ]

\* xml.NewDecoder(bytes.NewReader(data)): the decoder handed to the
\* collaborator reads the decoded bytes.
DecoderInput(data, response) == data

\* the error of a certificate used outside its validity period
ErrCertExpired == "x509: certificate has expired"

\* Variant: Verify refuses a certificate whose validity period is over.
Verify_CertExpiry(samlResponse, issuer, cert, recipient, now) ==
    IF now > cert.NotAfter THEN Fail(ErrCertExpired, << >>)
    ELSE
    LET dec == DecodeString(samlResponse) IN
    IF dec.err # NoErr THEN Fail(dec.err, << >>)
    ELSE
    LET un == Unmarshal(dec.data) IN
    IF un.err # NoErr THEN Fail(un.err, << >>)
    ELSE IF NotSigned(un.response) THEN Fail(ErrResponseNotSigned, << >>)
    ELSE
    LET input == DecoderInput(dec.data, un.response)
        invocation == [ cert |-> cert, data |-> input ]
        serr == SignatureVerify(un.response.Signature, cert, input) IN
    IF serr # NoErr THEN Fail(serr, << invocation >>)
    ELSE
    Return(un.response, BusinessError(un.response, issuer, recipient, now),
           << invocation >>)

\* Variant: the error of the signature collaborator is dropped.
Verify_VerdictDropped(samlResponse, issuer, cert, recipient, now) ==
    LET dec == DecodeString(samlResponse) IN
    IF dec.err # NoErr THEN Fail(dec.err, << >>)
    ELSE
    LET un == Unmarshal(dec.data) IN
    IF un.err # NoErr THEN Fail(un.err, << >>)
    ELSE IF NotSigned(un.response) THEN Fail(ErrResponseNotSigned, << >>)
    ELSE
    LET input == DecoderInput(dec.data, un.response)
        invocation == [ cert |-> cert, data |-> input ] IN
    Return(un.response, BusinessError(un.response, issuer, recipient, now),
           << invocation >>)

\* Variant: a failed signature check is tried a second time.
Verify_Retry(samlResponse, issuer, cert, recipient, now) ==
    LET dec == DecodeString(samlResponse) IN
    IF dec.err # NoErr THEN Fail(dec.err, << >>)
    ELSE
    LET un == Unmarshal(dec.data) IN
    IF un.err # NoErr THEN Fail(un.err, << >>)
    ELSE IF NotSigned(un.response) THEN Fail(ErrResponseNotSigned, << >>)
    ELSE
    LET input == DecoderInput(dec.data, un.response)
        invocation == [ cert |-> cert, data |-> input ]
        serr == SignatureVerify(un.response.Signature, cert, input) IN
    IF serr # NoErr THEN Fail(serr, << invocation, invocation >>)
    ELSE
    Return(un.response, BusinessError(un.response, issuer, recipient, now),
           << invocation >>)

\* Verify; calls is the sequence of invocations of the signature collaborator.
Verify(samlResponse, issuer, cert, recipient, now) ==
    LET dec == DecodeString(samlResponse) IN
    IF dec.err # NoErr THEN Fail(dec.err, << >>)
    ELSE
    LET un == Unmarshal(dec.data) IN
    IF un.err # NoErr THEN Fail(un.err, << >>)
    ELSE IF NotSigned(un.response) THEN Fail(ErrResponseNotSigned, << >>)
    ELSE
    LET input == DecoderInput(dec.data, un.response)
        invocation == [ cert |-> cert, data |-> input ]
        serr == SignatureVerify(un.response.Signature, cert, input) IN
    IF serr # NoErr THEN Fail(serr, << invocation >>)
    ELSE
    Return(un.response, BusinessError(un.response, issuer, recipient, now),
           << invocation >>)

----------------------------------------------------------------------------
\* Inputs

Keys == { "k1", "k2" }

\* cert.NotAfter is the end of the certificate's validity period.
Certs ==
    { [ PublicKey |-> "k1", NotAfter |-> MaxTime + 1 ],
      [ PublicKey |-> "k1", NotAfter |-> 0 ],
      [ PublicKey |-> "k2", NotAfter |-> MaxTime + 1 ] }

ExpectedIssuers == { "idp-a", "idp-b" }

DocIssuers == { "idp-a", "idp-b", "IDP-A", "idp-a " }

Recipients == { "https://sp.example/acs", "https://other.example/acs" }

\* The recipient argument: a caller may also pass the empty string, which
\* Verify compares like any other.
ExpectedRecipients == Recipients \cup { "" }

Instants == 1 .. MaxTime

Opt(S) == { << >> } \cup { << x >> : x \in S }

One(S) == { << x >> : x \in S }

\* The attributes of a complete response.
DefaultAttributes ==
    << [ Name |-> "email", NameFormat |-> "basic", Value |-> "a@x" ] >>

\* Sequences of attributes: none, one, two in either order, a duplicate.
AttributeLists ==
    LET a == [ Name |-> "email", NameFormat |-> "basic", Value |-> "a@x" ]
        b == [ Name |-> "group", NameFormat |-> "uri", Value |-> "admin" ]
    IN { << >>, << a >>, << a, b >>, << b, a >>, << a, a >>, << a, b, a >> }

\* Complete responses: every element present, every combination of
\* signature, issuer, recipient and validity window; the unsigned ones with
\* or without a signature inside the Assertion.
FullDocs ==
    [ syntax : { "ok" }, root : { "Response" }, unknown : { FALSE },
      SignatureValue : One({ "c2ln" }), signer : Keys \cup { "nobody" },
      AssertionSignatureValue : { << >> },
      Issuer : One(DocIssuers), Recipient : One(Recipients),
      NameID : One({ "alice" }), Attributes : { DefaultAttributes },
      NotBefore : One(Instants), NotOnOrAfter : One(Instants),
      SCDNotOnOrAfter : One(Instants) ]
    \cup
    [ syntax : { "ok" }, root : { "Response" }, unknown : { FALSE },
      SignatureValue : { << >>, << "" >> }, signer : { "nobody" },
      AssertionSignatureValue : Opt({ "YXNz" }),
      Issuer : One(DocIssuers), Recipient : One(Recipients),
      NameID : One({ "alice" }), Attributes : { DefaultAttributes },
      NotBefore : One(Instants), NotOnOrAfter : One(Instants),
      SCDNotOnOrAfter : One(Instants) ]

\* Signed responses that differ in NameID and attributes.
AttributeDocs ==
    [ syntax : { "ok" }, root : { "Response" }, unknown : BOOLEAN,
      SignatureValue : One({ "c2ln" }), signer : { "k1" },
      AssertionSignatureValue : { << >> },
      Issuer : One({ "idp-a" }), Recipient : One({ "https://sp.example/acs" }),
      NameID : Opt({ "alice", "bob" }), Attributes : AttributeLists,
      NotBefore : One({ 1 }), NotOnOrAfter : One({ MaxTime }),
      SCDNotOnOrAfter : One({ MaxTime }) ]

\* Responses with absent elements, unknown elements, an unparsable time,
\* another root element or malformed XML.
SparseDocs ==
    { d \in
    [ syntax : { "ok", "malformed" }, root : { "Response", "LogoutResponse" },
      unknown : BOOLEAN,
      SignatureValue : Opt({ "c2ln" }), signer : { "k1", "nobody" },
      AssertionSignatureValue : { << >> },
      Issuer : Opt({ "idp-a" }), Recipient : Opt({ "https://sp.example/acs" }),
      NameID : Opt({ "alice" }), Attributes : { << >> },
      NotBefore : Opt({ 1, BadTime }), NotOnOrAfter : Opt({ MaxTime }),
      SCDNotOnOrAfter : Opt({ MaxTime }) ] :
      Chardata(d.SignatureValue) = "" => d.signer = "nobody" }

Datas == FullDocs \cup AttributeDocs \cup SparseDocs

\* The payloads of the texts that are not base64.
CorruptPayloads == { d \in SparseDocs : d.unknown /\ Len(d.NameID) = 0 }

SamlResponses ==
    [ encoding : { "std" }, payload : Datas ]
    \cup [ encoding : { "corrupt" }, payload : CorruptPayloads ]

\* Calls with an expected issuer, and calls of a caller that expects the
\* empty issuer; either with an expected recipient or with the empty one.
Args ==
    [ samlResponse : SamlResponses, issuer : ExpectedIssuers, cert : Certs,
      recipient : ExpectedRecipients, now : 0 .. MaxTime ]
    \cup
    [ samlResponse : [ encoding : { "std" }, payload : SparseDocs ],
      issuer : { "" }, cert : Certs, recipient : ExpectedRecipients,
      now : 0 .. MaxTime ]

----------------------------------------------------------------------------
\* The metadata extractor

ErrNoRedirectBinding == "saml: no HTTP redirect binding in IdP metadata"

SingleSignOnServiceBindingHTTPRedirect ==
    "urn:oasis:names:tc:SAML:2.0:bindings:HTTP-Redirect"

\* x509.ParseCertificate's error on bytes that are no certificate
ErrCertificate == "asn1: structure error"

\* *url.Error, returned by url.Parse
ErrURLParse == "parse: invalid URL"

NilCert == << >>

NilURL == << >>

\* EntityDescriptor{}: the zero value
ZeroEntityDescriptor ==
    [ EntityID |-> "",
      X509Certificate |->
        [ encoding |-> "std",
          der |-> [ wellFormed |-> FALSE, PublicKey |-> "", NotAfter |-> ZeroTime ] ],
      SingleSignOnServices |-> << >> ]

\* x509.ParseCertificate
ParseCertificate(asn1Data) ==
    IF asn1Data.wellFormed
    THEN [ cert |-> << [ PublicKey |-> asn1Data.PublicKey,
                         NotAfter |-> asn1Data.NotAfter ] >>,
           err |-> NoErr ]
    ELSE [ cert |-> NilCert, err |-> ErrCertificate ]

\* cert.Raw: the bytes the certificate was parsed from
Raw(cert) ==
    [ wellFormed |-> TRUE, PublicKey |-> cert.PublicKey, NotAfter |-> cert.NotAfter ]

\* url.Parse
URLParse(text) ==
    IF text.wellFormed
    THEN [ url |-> << [ base |-> text.base, RawQuery |-> text.RawQuery ] >>,
           err |-> NoErr ]
    ELSE [ url |-> NilURL, err |-> ErrURLParse ]

\* Variant: an entry with any binding is taken.
IsRedirect_AnyBinding(s) == s.Binding # ""

\* s.Binding == SingleSignOnServiceBindingHTTPRedirect
IsRedirect(s) == s.Binding = SingleSignOnServiceBindingHTTPRedirect

\* The positions of the entries the loop would return at.
RedirectPositions(services) ==
    { i \in 1 .. Len(services) : IsRedirect(services[i]) }

\* Variant: the loop skips a matching entry whose location does not parse
\* when a later matching entry's location does.
SelectedPosition_WellFormed(services) ==
    LET good == { i \in RedirectPositions(services) :
                    services[i].Location.wellFormed }
        from == IF good = { } THEN RedirectPositions(services) ELSE good
    IN CHOOSE i \in from : \A j \in from : i <= j

\* Variant: the loop keeps the last matching entry.
SelectedPosition_Last(services) ==
    CHOOSE i \in RedirectPositions(services) :
        \A j \in RedirectPositions(services) : j <= i

\* The position at which the range loop returns: the first matching entry.
SelectedPosition(services) ==
    CHOOSE i \in RedirectPositions(services) :
        \A j \in RedirectPositions(services) : i <= j

\* Variant: the binding is selected before the certificate is looked at.
GetEntityIDCertificateAndRedirectURL_BindingFirst(d) ==
    IF RedirectPositions(d.SingleSignOnServices) = { }
    THEN [ issuer |-> "", cert |-> NilCert, url |-> NilURL,
           err |-> ErrNoRedirectBinding ]
    ELSE
    LET dec == DecodeString([ encoding |-> d.X509Certificate.encoding,
                              payload |-> d.X509Certificate.der ]) IN
    IF dec.err # NoErr
    THEN [ issuer |-> "", cert |-> NilCert, url |-> NilURL, err |-> dec.err ]
    ELSE
    LET pcert == ParseCertificate(dec.data) IN
    IF pcert.err # NoErr
    THEN [ issuer |-> "", cert |-> NilCert, url |-> NilURL, err |-> pcert.err ]
    ELSE LET s == d.SingleSignOnServices[SelectedPosition(d.SingleSignOnServices)]
             location == URLParse(s.Location)
         IN [ issuer |-> d.EntityID, cert |-> pcert.cert,
              url |-> location.url, err |-> location.err ]

\* GetEntityIDCertificateAndRedirectURL
GetEntityIDCertificateAndRedirectURL(d) ==
    LET dec == DecodeString([ encoding |-> d.X509Certificate.encoding,
                              payload |-> d.X509Certificate.der ]) IN
    IF dec.err # NoErr
    THEN [ issuer |-> "", cert |-> NilCert, url |-> NilURL, err |-> dec.err ]
    ELSE
    LET pcert == ParseCertificate(dec.data) IN
    IF pcert.err # NoErr
    THEN [ issuer |-> "", cert |-> NilCert, url |-> NilURL, err |-> pcert.err ]
    ELSE IF RedirectPositions(d.SingleSignOnServices) # { }
    THEN LET s == d.SingleSignOnServices[SelectedPosition(d.SingleSignOnServices)]
             location == URLParse(s.Location)
         IN [ issuer |-> d.EntityID, cert |-> pcert.cert,
              url |-> location.url, err |-> location.err ]
    ELSE [ issuer |-> "", cert |-> NilCert, url |-> NilURL,
           err |-> ErrNoRedirectBinding ]

\* Metadata documents

EntityIDs == { "idp-a", "idp-b" }

Bindings ==
    { SingleSignOnServiceBindingHTTPRedirect,
      "urn:oasis:names:tc:SAML:2.0:bindings:HTTP-POST",
      "urn:oasis:names:tc:saml:2.0:bindings:http-redirect" }

LocationTexts ==
    { [ wellFormed |-> TRUE, base |-> "https://idp.example/sso", RawQuery |-> << >> ],
      [ wellFormed |-> TRUE, base |-> "https://idp.example/alt", RawQuery |-> << >> ],
      [ wellFormed |-> FALSE, base |-> "https://idp.example/%zz", RawQuery |-> << >> ] }

CertificateTexts ==
    { [ encoding |-> "std",
        der |-> [ wellFormed |-> TRUE, PublicKey |-> "k1", NotAfter |-> MaxTime + 1 ] ],
      [ encoding |-> "std",
        der |-> [ wellFormed |-> TRUE, PublicKey |-> "k2", NotAfter |-> 0 ] ],
      [ encoding |-> "std",
        der |-> [ wellFormed |-> FALSE, PublicKey |-> "k1", NotAfter |-> MaxTime + 1 ] ],
      [ encoding |-> "corrupt",
        der |-> [ wellFormed |-> TRUE, PublicKey |-> "k1", NotAfter |-> MaxTime + 1 ] ] }

Services == [ Binding : Bindings, Location : LocationTexts ]

ServiceLists ==
    UNION { [ 1 .. n -> Services ] : n \in 0 .. MaxServices }

EntityDescriptors ==
    [ EntityID : EntityIDs, X509Certificate : CertificateTexts,
      SingleSignOnServices : ServiceLists ]

----------------------------------------------------------------------------
\* The variables of each part of the model, and their values in the
\* specifications that do not model the part

ZeroExtract ==
    [ issuer |-> "", cert |-> NilCert, url |-> NilURL, err |-> NoErr ]

\* The variables of the extractor when no extraction is modelled.
MetaOff ==
    /\ md = ZeroEntityDescriptor
    /\ mpc = "off"
    /\ mret = ZeroExtract

\* The variables of Verify when no verification is modelled.
VerifyOff ==
    /\ args = [ samlResponse |-> [ encoding |-> "corrupt" ] ]
    /\ pc = "off"
    /\ ret = [ response |-> ZeroResponse, err |-> NoErr ]
    /\ collab = << >>

StatusOK == 200

StatusFound == 302

StatusBadRequest == 400

StatusUnauthorized == 401

StatusForbidden == 403

StatusInternalServerError == 500

\* A handler that panics: net/http recovers and closes the connection.
StatusAborted == 0

\* The goroutines that serve /setup requests at the same time
SetupWorkers == { "s1", "s2" }

NoResponse ==
    [ handler |-> "", status |-> StatusOK, location |-> NilURL, relay |-> << >>,
      call |-> << >> ]

\* The connections table and the ids of its rows
ConnIDs == { "c1", "c2" }

\* A row that does not exist.
NoRow ==
    [ exists |-> FALSE, configured |-> FALSE, Issuer |-> "",
      X509 |-> [ wellFormed |-> FALSE, PublicKey |-> "", NotAfter |-> ZeroTime ],
      RedirectURL |-> [ wellFormed |-> TRUE, base |-> "", RawQuery |-> << >> ] ]

\* A row as createConnection inserts it: the id only.
NewRow == [ NoRow EXCEPT !.exists = TRUE ]

NotCalled == "not called"

NoPersistResponse ==
    [ handler |-> "", id |-> "", status |-> StatusOK, location |-> NilURL,
      relay |-> << >>, echo |-> << >>, verr |-> NotCalled,
      request |-> << >> ]

\* The variables of the persistent example when it is not modelled.
PersistOff ==
    /\ conns = [ i \in ConnIDs |-> NoRow ]
    /\ presp = NoPersistResponse

\* The goroutines that call Verify
MaxCallers == 2

Callers == 1 .. MaxCallers

\* A nil byte slice
NilData ==
    [ syntax |-> "malformed", root |-> "", unknown |-> FALSE,
      SignatureValue |-> << >>, signer |-> "nobody",
      AssertionSignatureValue |-> << >>,
      Issuer |-> << >>, Recipient |-> << >>, NameID |-> << >>,
      Attributes |-> << >>, NotBefore |-> << >>, NotOnOrAfter |-> << >>,
      SCDNotOnOrAfter |-> << >> ]

\* The local variables of a call that has not run yet.
NoLocals == [ data |-> NilData, response |-> ZeroResponse ]

\* The variables of the concurrent calls when they are not modelled.
ConcOff ==
    /\ frames = << >>
    /\ locals = << >>

\* The accounts of the todo app
TodoAccountIDs == { "a1", "a2" }

\* The goroutines that serve saml/acs requests at the same time
AcsWorkers == { "w1", "w2" }

\* A row of accounts that does not exist.
NoAccount ==
    [ exists |-> FALSE, saml_issuer |-> << >>, saml_x509 |-> << >>,
      saml_redirect_url |-> << >> ]

\* No request handled yet.
NoRequest ==
    [ handler |-> "", account |-> "", cookie |-> 0, user |-> 0, err |-> NoErr,
      status |-> 0 ]

\* The variables of the todo app when it is not modelled.
TodoOff ==
    /\ taccounts = [ a \in TodoAccountIDs |-> NoAccount ]
    /\ tusers = << >>
    /\ tsessions = << >>
    /\ tnow = 0
    /\ tsignup = [ pc |-> "off" ]
    /\ tacs = [ w \in AcsWorkers |-> [ pc |-> "off" ] ]
    /\ treq = NoRequest

\* The variables of the hello-world example when it is not modelled.
HelloOff ==
    /\ hello = [ issuer |-> "", cert |-> NilCert, redirectURL |-> NilURL ]
    /\ hsetup = [ w \in SetupWorkers |-> [ pc |-> "off" ] ]
    /\ hacs = [ pc |-> "off" ]
    /\ hresp = NoResponse

----------------------------------------------------------------------------
\* The state machine: one call of GetEntityIDCertificateAndRedirectURL

InitMeta ==
    /\ md \in EntityDescriptors
    /\ mpc = "called"
    /\ mret = ZeroExtract
    /\ VerifyOff
    /\ HelloOff
    /\ PersistOff
    /\ ConcOff
    /\ TodoOff

ExtractCall ==
    /\ mpc = "called"
    /\ mret' = GetEntityIDCertificateAndRedirectURL(md)
    /\ mpc' = "returned"
    /\ UNCHANGED md
    /\ UNCHANGED <<verifyVars, helloVars, persistVars, concVars, todoVars>>

NextMeta == ExtractCall

SpecMeta == InitMeta /\ [][NextMeta]_vars

----------------------------------------------------------------------------
\* net/url: query strings

ParamRelayState == << "RelayState" >>

\* The characters of the model in byte order; a word stands for its letters.
Alphabet ==
    << " ", "%26", "%2B", "%3D", "%zz", "&", "+", "=",
       "RelayState", "a", "b", "relay_state" >>

Rank(c) == CHOOSE i \in 1 .. Len(Alphabet) : Alphabet[i] = c

\* url.QueryEscape of one character
EscapeChar(c) ==
    CASE c = " " -> "+"
      [] c = "&" -> "%26"
      [] c = "+" -> "%2B"
      [] c = "=" -> "%3D"
      [] OTHER -> c

\* url.QueryEscape
QueryEscape(str) == [ i \in 1 .. Len(str) |-> EscapeChar(str[i]) ]

\* url.QueryUnescape of one character; "%zz" is an escape that does not parse
UnescapeChar(c) ==
    CASE c = "+" -> " "
      [] c = "%26" -> "&"
      [] c = "%2B" -> "+"
      [] c = "%3D" -> "="
      [] OTHER -> c

UnescapeOK(str) == \A i \in 1 .. Len(str) : str[i] # "%zz"

\* url.QueryUnescape
QueryUnescape(str) == [ i \in 1 .. Len(str) |-> UnescapeChar(str[i]) ]

\* strings.Split(query, "&")
RECURSIVE SplitPairs(_)
SplitPairs(query) ==
    IF Len(query) = 0 THEN << << >> >>
    ELSE LET front == SplitPairs(SubSeq(query, 1, Len(query) - 1))
             c == query[Len(query)]
         IN IF c = "&" THEN Append(front, << >>)
            ELSE [ front EXCEPT ![Len(front)] = Append(@, c) ]

\* The position of the first "=" of a pair, 0 when it has none.
EqualsAt(pair) ==
    IF \E i \in 1 .. Len(pair) : pair[i] = "="
    THEN CHOOSE i \in 1 .. Len(pair) :
            pair[i] = "=" /\ \A j \in 1 .. i - 1 : pair[j] # "="
    ELSE 0

PairKey(pair) ==
    IF EqualsAt(pair) = 0 THEN pair ELSE SubSeq(pair, 1, EqualsAt(pair) - 1)

PairValue(pair) ==
    IF EqualsAt(pair) = 0 THEN << >>
    ELSE SubSeq(pair, EqualsAt(pair) + 1, Len(pair))

\* url.Values{}: a map from keys to sequences of values
EmptyValues == [ k \in { } |-> << >> ]

\* Variant: Add replaces what the key holds.
ValuesAdd_Replace(v, key, value) ==
    [ k \in DOMAIN v \cup { key } |-> IF k = key THEN << value >> ELSE v[k] ]

\* url.Values.Add
ValuesAdd(v, key, value) ==
    [ k \in DOMAIN v \cup { key } |->
        IF k # key THEN v[k]
        ELSE IF key \in DOMAIN v THEN Append(v[k], value) ELSE << value >> ]

\* Variant: Set adds a value and keeps the ones the key has.
ValuesSet_Append(v, key, value) ==
    [ k \in DOMAIN v \cup { key } |->
        IF k # key THEN v[k]
        ELSE IF key \in DOMAIN v THEN Append(v[k], value) ELSE << value >> ]

\* url.Values.Set
ValuesSet(v, key, value) ==
    [ k \in DOMAIN v \cup { key } |-> IF k = key THEN << value >> ELSE v[k] ]

\* url.Values.Get: the first value of the key, "" when it has none
ValuesGet(v, key) ==
    IF key \in DOMAIN v /\ Len(v[key]) > 0 THEN v[key][1] ELSE << >>

\* url.ParseQuery over the pairs: empty pairs and pairs with an escape that
\* does not parse are dropped.
RECURSIVE ParsePairs(_)
ParsePairs(pairs) ==
    IF Len(pairs) = 0 THEN EmptyValues
    ELSE LET v == ParsePairs(SubSeq(pairs, 1, Len(pairs) - 1))
             pair == pairs[Len(pairs)]
         IN IF Len(pair) = 0 THEN v
            ELSE IF ~ (UnescapeOK(PairKey(pair)) /\ UnescapeOK(PairValue(pair)))
            THEN v
            ELSE ValuesAdd(v, QueryUnescape(PairKey(pair)),
                           QueryUnescape(PairValue(pair)))

\* URL.Query(): a fresh url.Values parsed from RawQuery
Query(u) == ParsePairs(SplitPairs(u.RawQuery))

\* the order of strings that sort.Strings uses
RECURSIVE StringLess(_, _)
StringLess(x, y) ==
    IF Len(y) = 0 THEN FALSE
    ELSE IF Len(x) = 0 THEN TRUE
    ELSE IF x[1] # y[1] THEN Rank(x[1]) < Rank(y[1])
    ELSE StringLess(Tail(x), Tail(y))

RECURSIVE SortKeys(_)
SortKeys(keys) ==
    IF keys = { } THEN << >>
    ELSE LET m == CHOOSE k \in keys : \A o \in keys \ { k } : StringLess(k, o)
         IN << m >> \o SortKeys(keys \ { m })

\* key=value&key=value for the values of one key
RECURSIVE EncodeKey(_, _)
EncodeKey(key, values) ==
    IF Len(values) = 0 THEN << >>
    ELSE LET front == EncodeKey(key, SubSeq(values, 1, Len(values) - 1))
             kv == QueryEscape(key) \o << "=" >> \o QueryEscape(values[Len(values)])
         IN IF Len(front) = 0 THEN kv ELSE front \o << "&" >> \o kv

RECURSIVE EncodeKeys(_, _)
EncodeKeys(v, keys) ==
    IF Len(keys) = 0 THEN << >>
    ELSE LET front == EncodeKeys(v, SubSeq(keys, 1, Len(keys) - 1))
             part == EncodeKey(keys[Len(keys)], v[keys[Len(keys)]])
         IN IF Len(front) = 0 THEN part
            ELSE IF Len(part) = 0 THEN front
            ELSE front \o << "&" >> \o part

\* url.Values.Encode: the keys sorted, the values of a key in their order
Encode(v) == EncodeKeys(v, SortKeys(DOMAIN v))

\* URL.String()
String(u) == [ wellFormed |-> TRUE, base |-> u.base, RawQuery |-> u.RawQuery ]

\* The relay states of the requests
RelayStates ==
    { << >>, << "a" >>, << "a", "&", "b", "=", "a" >>, << "+", " ", "b" >> }

\* The query of a request /initiate?relay_state=V; without the parameter when
\* V is empty.
RequestQuery(relay) ==
    IF Len(relay) = 0 THEN << >>
    ELSE << "relay_state", "=" >> \o QueryEscape(relay)

\* The metadata documents uploaded to the examples: two identity providers,
\* the first with a query in its location, one document without HTTP-Redirect
\* binding and one whose location is malformed.
AppLocationTexts ==
    { [ wellFormed |-> TRUE, base |-> "https://idp.example/sso",
        RawQuery |-> << "b", "=", "a", "&", "a", "=", "%26" >> ],
      [ wellFormed |-> TRUE, base |-> "https://idp.example/alt",
        RawQuery |-> << >> ],
      [ wellFormed |-> TRUE, base |-> "https://idp.example/app",
        RawQuery |-> << "RelayState", "=", "b", "&", "a", "=", "%zz", "&", "a" >> ],
      [ wellFormed |-> FALSE, base |-> "https://idp.example/%zz",
        RawQuery |-> << >> ] }

AppDescriptor(id, key, binding, location) ==
    [ EntityID |-> id,
      X509Certificate |->
        [ encoding |-> "std",
          der |-> [ wellFormed |-> TRUE, PublicKey |-> key, NotAfter |-> MaxTime + 1 ] ],
      SingleSignOnServices |-> << [ Binding |-> binding, Location |-> location ] >> ]

AppDescriptors ==
    { AppDescriptor("idp-a", "k1", b, l) : b \in Bindings, l \in AppLocationTexts }
    \cup { AppDescriptor("idp-b", "k2", SingleSignOnServiceBindingHTTPRedirect, l) :
             l \in AppLocationTexts }

\* A request body: XML that decodes into an EntityDescriptor, or not.
Uploads == [ xmlOK : BOOLEAN, metadata : AppDescriptors ]

\* xml.NewDecoder(r.Body).Decode(&metadata)
DecodeMetadata(upload) ==
    IF upload.xmlOK THEN [ metadata |-> upload.metadata, err |-> NoErr ]
    ELSE [ metadata |-> ZeroEntityDescriptor, err |-> ErrXMLSyntax ]

----------------------------------------------------------------------------
\* The hello-world example: the variables issuer, cert and redirectURL of
\* main, shared by the handlers, are the fields of hello.

\* The metadata documents uploaded to the hello-world example: one that
\* extracts for each identity provider, and ones that fail.
HelloUploads ==
    { u \in Uploads :
        LET l == u.metadata.SingleSignOnServices[1].Location IN
        IF u.metadata.EntityID = "idp-a"
        THEN l.base = "https://idp.example/sso"
        ELSE l.base \in { "https://idp.example/alt", "https://idp.example/%zz" } }

\* "http://localhost:8080/acs"
HelloRecipient == "http://localhost:8080/acs"

\* Responses posted to /acs: signed by either identity provider, or unsigned.
HelloDocs ==
    { [ syntax |-> "ok", root |-> "Response", unknown |-> FALSE,
        SignatureValue |-> sv, signer |-> k,
        AssertionSignatureValue |-> << >>,
        Issuer |-> << i >>, Recipient |-> << HelloRecipient >>,
        NameID |-> << "alice" >>, Attributes |-> DefaultAttributes,
        NotBefore |-> << 1 >>, NotOnOrAfter |-> << MaxTime >>,
        SCDNotOnOrAfter |-> << MaxTime >> ] :
      <<sv, k, i>> \in { << << "c2ln" >>, "k1", "idp-a" >>,
                         << << "c2ln" >>, "k2", "idp-b" >>,
                         << << >>, "nobody", "idp-a" >> } }

\* r.FormValue("SAMLResponse")
HelloForms == [ encoding : { "std" }, payload : HelloDocs ]

\* time.Now()
HelloNow == 1

\* a nil pointer dereference
ErrNilDereference == "runtime error: invalid memory address or nil pointer dereference"

InitHello ==
    /\ hello = [ issuer |-> "", cert |-> NilCert, redirectURL |-> NilURL ]
    /\ hsetup = [ w \in SetupWorkers |-> [ pc |-> "idle" ] ]
    /\ hacs = [ pc |-> "idle" ]
    /\ hresp = NoResponse
    /\ VerifyOff
    /\ MetaOff
    /\ PersistOff
    /\ ConcOff
    /\ TodoOff

\* /setup up to its three assignments: the body is decoded and the trust
\* anchor extracted; a failure answers 400 and assigns nothing.
HelloSetup(w) ==
    /\ hsetup[w].pc = "idle"
    /\ \E upload \in HelloUploads :
        LET dec == DecodeMetadata(upload)
            ex == GetEntityIDCertificateAndRedirectURL(dec.metadata)
        IN IF dec.err # NoErr \/ ex.err # NoErr
           THEN /\ hresp' = [ NoResponse EXCEPT !.handler = "setup",
                                                !.status = StatusBadRequest ]
                /\ UNCHANGED hsetup
           ELSE /\ hsetup' = [ hsetup EXCEPT ![w] =
                                 [ pc |-> "issuer", inputIssuer |-> ex.issuer,
                                   inputCert |-> ex.cert,
                                   inputRedirectURL |-> ex.url ] ]
                /\ UNCHANGED hresp
    /\ UNCHANGED <<hello, hacs>>
    /\ UNCHANGED <<verifyVars, metaVars, persistVars, concVars, todoVars>>

\* issuer = inputIssuer
HelloSetupIssuer(w) ==
    /\ hsetup[w].pc = "issuer"
    /\ hello' = [ hello EXCEPT !.issuer = hsetup[w].inputIssuer ]
    /\ hsetup' = [ hsetup EXCEPT ![w].pc = "cert" ]
    /\ UNCHANGED <<hacs, hresp>>
    /\ UNCHANGED <<verifyVars, metaVars, persistVars, concVars, todoVars>>

\* cert = inputCert
HelloSetupCert(w) ==
    /\ hsetup[w].pc = "cert"
    /\ hello' = [ hello EXCEPT !.cert = hsetup[w].inputCert ]
    /\ hsetup' = [ hsetup EXCEPT ![w].pc = "redirectURL" ]
    /\ UNCHANGED <<hacs, hresp>>
    /\ UNCHANGED <<verifyVars, metaVars, persistVars, concVars, todoVars>>

\* redirectURL = inputRedirectURL, and the handler returns
HelloSetupRedirectURL(w) ==
    /\ hsetup[w].pc = "redirectURL"
    /\ hello' = [ hello EXCEPT !.redirectURL = hsetup[w].inputRedirectURL ]
    /\ hsetup' = [ hsetup EXCEPT ![w] = [ pc |-> "idle" ] ]
    /\ hresp' = [ NoResponse EXCEPT !.handler = "setup" ]
    /\ UNCHANGED hacs
    /\ UNCHANGED <<verifyVars, metaVars, persistVars, concVars, todoVars>>

\* /acs up to the second argument of saml.Verify: the form is parsed and
\* the variable issuer is read.
HelloAcsIssuer ==
    /\ hacs.pc = "idle"
    /\ \E form \in HelloForms :
        hacs' = [ pc |-> "cert", form |-> form, issuer |-> hello.issuer ]
    /\ UNCHANGED <<hello, hsetup, hresp>>
    /\ UNCHANGED <<verifyVars, metaVars, persistVars, concVars, todoVars>>

\* saml.Verify with the certificate that the variable cert points to.  With
\* a nil cert the call fails or panics once it reaches the signature check.
HelloVerify(form, issuer, cert) ==
    IF cert # NilCert
    THEN { Verify(form, issuer, cert[1], HelloRecipient, HelloNow).err }
    ELSE LET v == Verify(form, issuer, [ PublicKey |-> "", NotAfter |-> ZeroTime ],
                         HelloRecipient, HelloNow)
         IN IF v.calls = << >> THEN { v.err }
            ELSE { ErrSignature, ErrNilDereference }

\* /acs from the third argument of saml.Verify on: the variable cert is
\* read, Verify is called and the response written.
HelloAcs ==
    /\ hacs.pc = "cert"
    /\ \E e \in HelloVerify(hacs.form, hacs.issuer, hello.cert) :
        hresp' = [ NoResponse EXCEPT
                     !.handler = "acs",
                     !.status = IF e = NoErr THEN StatusOK
                                ELSE IF e = ErrNilDereference THEN StatusAborted
                                ELSE StatusBadRequest,
                     !.call = << [ issuer |-> hacs.issuer, cert |-> hello.cert,
                                   err |-> e ] >> ]
    /\ hacs' = [ pc |-> "idle" ]
    /\ UNCHANGED <<hello, hsetup>>
    /\ UNCHANGED <<verifyVars, metaVars, persistVars, concVars, todoVars>>

\* The URL that /initiate redirects to: the copy of *redirectURL.  The
\* url.Values that Query() returns is a fresh map; Add changes that map and
\* not the URL.
HelloInitiateURL(redirectURL, requestQuery) ==
    LET copy == redirectURL[1]
        values == ValuesAdd(Query(copy), ParamRelayState,
                            ValuesGet(ParsePairs(SplitPairs(requestQuery)),
                                      << "relay_state" >>))
    IN String(copy)

\* /initiate?relay_state=V
HelloInitiate ==
    /\ \E relay \in RelayStates :
        IF hello.redirectURL = NilURL
        THEN hresp' = [ NoResponse EXCEPT !.handler = "initiate",
                                          !.status = StatusAborted,
                                          !.relay = relay ]
        ELSE hresp' = [ NoResponse EXCEPT
                          !.handler = "initiate", !.status = StatusFound,
                          !.location =
                            << HelloInitiateURL(hello.redirectURL,
                                                RequestQuery(relay)) >>,
                          !.relay = relay ]
    /\ UNCHANGED <<hello, hsetup, hacs>>
    /\ UNCHANGED <<verifyVars, metaVars, persistVars, concVars, todoVars>>

NextHello ==
    \/ \E w \in SetupWorkers :
        \/ HelloSetup(w)
        \/ HelloSetupIssuer(w)
        \/ HelloSetupCert(w)
        \/ HelloSetupRedirectURL(w)
    \/ HelloAcsIssuer
    \/ HelloAcs
    \/ HelloInitiate

SpecHello == InitHello /\ [][NextHello]_vars

----------------------------------------------------------------------------
\* The persistent example

ErrUUID == "invalid UUID"

ErrNoRows == "sql: no rows in result set"

\* the error of scanning a NULL column into a string field
ErrScanNull == "sql: Scan error: converting NULL to string is unsupported"

\* the error of r.ParseForm on a body with an escape that does not parse
ErrEscape == "invalid URL escape"

\* The :id of the request path; the last one is no UUID.
PathIDs == ConnIDs \cup { "not-a-uuid" }

\* uuid.Parse
UUIDParseOK(id) == id \in ConnIDs

\* store.getConnection: select * from connections where id = $1
GetConnection(table, id) ==
    IF ~ table[id].exists THEN [ c |-> NoRow, err |-> ErrNoRows ]
    ELSE IF ~ table[id].configured THEN [ c |-> NoRow, err |-> ErrScanNull ]
    ELSE [ c |-> table[id], err |-> NoErr ]

\* fmt.Sprintf("http://localhost:8080/connections/%s", id)
ConnectionRecipient(id) ==
    IF id = "c1" THEN "http://localhost:8080/connections/c1"
    ELSE "http://localhost:8080/connections/c2"

\* Responses posted to the example: signed by either key or unsigned, from
\* either issuer, for either connection.
PersistDocs ==
    [ syntax : { "ok" }, root : { "Response" }, unknown : { FALSE },
      SignatureValue : One({ "c2ln" }), signer : Keys,
      AssertionSignatureValue : { << >> },
      Issuer : One(EntityIDs),
      Recipient : One({ ConnectionRecipient(i) : i \in ConnIDs }),
      NameID : One({ "alice" }), Attributes : { DefaultAttributes },
      NotBefore : One({ 1 }), NotOnOrAfter : One({ MaxTime }),
      SCDNotOnOrAfter : One({ MaxTime }) ]
    \cup
    [ syntax : { "ok" }, root : { "Response" }, unknown : { FALSE },
      SignatureValue : { << >> }, signer : { "nobody" },
      AssertionSignatureValue : { << >> },
      Issuer : One({ "idp-a" }),
      Recipient : One({ ConnectionRecipient("c1") }),
      NameID : One({ "alice" }), Attributes : { DefaultAttributes },
      NotBefore : One({ 1 }), NotOnOrAfter : One({ MaxTime }),
      SCDNotOnOrAfter : One({ MaxTime }) ]

\* The form of a POST to /acs: the SAMLResponse field, the RelayState field
\* as the body spells it, and the relay state the sender put there.
Forms ==
    { [ SAMLResponse |-> [ encoding |-> "std", payload |-> data ],
        RelayState |-> QueryEscape(relay), relay |-> relay ] :
        data \in PersistDocs, relay \in RelayStates }
    \cup
    { [ SAMLResponse |-> [ encoding |-> "std", payload |-> data ],
        RelayState |-> << "a", "%zz" >>, relay |-> << >> ] :
        data \in PersistDocs }

\* time.Now()
Clock == { 1, MaxTime + 1 }

InitPersist ==
    /\ conns = [ i \in ConnIDs |-> NoRow ]
    /\ presp = NoPersistResponse
    /\ VerifyOff
    /\ MetaOff
    /\ HelloOff
    /\ ConcOff
    /\ TodoOff

PersistError(handler, id) ==
    [ NoPersistResponse EXCEPT !.handler = handler, !.id = id ]

\* POST /connections
PersistCreate ==
    /\ \E id \in ConnIDs :
        /\ ~ conns[id].exists
        /\ conns' = [ conns EXCEPT ![id] = NewRow ]
        /\ presp' = [ NoPersistResponse EXCEPT !.handler = "create", !.id = id ]
    /\ UNCHANGED <<verifyVars, metaVars, helloVars, concVars, todoVars>>

\* store.updateConnection: update connections set issuer, x509,
\* redirect_url where id = $4; no row, no change.
UpdateConnection(table, id, issuer, x509, redirectURL) ==
    IF ~ table[id].exists THEN table
    ELSE [ table EXCEPT ![id] =
             [ exists |-> TRUE, configured |-> TRUE, Issuer |-> issuer,
               X509 |-> x509, RedirectURL |-> redirectURL ] ]

\* PATCH /connections/:id/metadata
PersistMetadata ==
    /\ \E id \in PathIDs, upload \in Uploads :
        LET dec == DecodeMetadata(upload)
            ex == GetEntityIDCertificateAndRedirectURL(dec.metadata)
        IN IF ~ UUIDParseOK(id) \/ dec.err # NoErr \/ ex.err # NoErr
           THEN /\ presp' = PersistError("metadata", id)
                /\ UNCHANGED conns
           ELSE /\ conns' = UpdateConnection(conns, id, ex.issuer,
                                             Raw(ex.cert[1]), String(ex.url[1]))
                /\ presp' = [ NoPersistResponse EXCEPT
                                !.handler = "metadata", !.id = id ]
    /\ UNCHANGED <<verifyVars, metaVars, helloVars, concVars, todoVars>>

\* The URL that GET /connections/:id/initiate redirects to.
InitiateURL(redirectURL, requestQuery) ==
    LET relayState == ValuesGet(ParsePairs(SplitPairs(requestQuery)),
                                << "relay_state" >>)
        query == ValuesSet(Query(redirectURL), ParamRelayState, relayState)
    IN String([ redirectURL EXCEPT !.RawQuery = Encode(query) ])

\* GET /connections/:id/initiate?relay_state=V
PersistInitiate ==
    /\ \E id \in PathIDs, relay \in RelayStates :
        IF ~ UUIDParseOK(id) THEN presp' = PersistError("initiate", id)
        ELSE
        LET got == GetConnection(conns, id) IN
        IF got.err # NoErr THEN presp' = PersistError("initiate", id)
        ELSE
        LET parsed == URLParse(got.c.RedirectURL) IN
        IF parsed.err # NoErr THEN presp' = PersistError("initiate", id)
        ELSE presp' = [ NoPersistResponse EXCEPT
                          !.handler = "initiate", !.id = id,
                          !.status = StatusFound,
                          !.location =
                              << InitiateURL(parsed.url[1], RequestQuery(relay)) >>,
                          !.relay = relay ]
    /\ UNCHANGED conns
    /\ UNCHANGED <<verifyVars, metaVars, helloVars, concVars, todoVars>>

\* POST /connections/:id/acs
PersistAcs ==
    /\ \E id \in PathIDs, form \in Forms, now \in Clock :
        IF ~ UUIDParseOK(id) THEN presp' = PersistError("acs", id)
        ELSE
        LET got == GetConnection(conns, id) IN
        IF got.err # NoErr THEN presp' = PersistError("acs", id)
        ELSE IF ~ UnescapeOK(form.RelayState)
        THEN presp' = PersistError("acs", id)
        ELSE
        LET pcert == ParseCertificate(got.c.X509) IN
        IF pcert.err # NoErr THEN presp' = PersistError("acs", id)
        ELSE
        LET v == Verify(form.SAMLResponse, got.c.Issuer, pcert.cert[1],
                        ConnectionRecipient(id), now)
            relayState == QueryUnescape(form.RelayState)
        IN presp' = [ NoPersistResponse EXCEPT
                        !.handler = "acs", !.id = id,
                        !.relay = form.relay,
                        !.verr = v.err,
                        !.echo = IF v.err # NoErr THEN << >>
                                 ELSE << relayState >>,
                        !.request = << [ form |-> form, now |-> now ] >> ]
    /\ UNCHANGED conns
    /\ UNCHANGED <<verifyVars, metaVars, helloVars, concVars, todoVars>>

NextPersist ==
    \/ PersistCreate
    \/ PersistMetadata
    \/ PersistInitiate
    \/ PersistAcs

SpecPersist == InitPersist /\ [][NextPersist]_vars

----------------------------------------------------------------------------
\* The todo app: the tables accounts, users and sessions, and the handlers

\* errors.New("unauthorized")
ErrUnauthorized == "unauthorized"

\* the error of inserting a second row with the same (account_id, saml_id)
ErrUniqueViolation == "pq: duplicate key value violates unique constraint"

\* the error of bcrypt.CompareHashAndPassword
ErrPassword == "crypto/bcrypt: hashedPassword is not the hash of the given password"

\* time.Hour * 24, in units of the model's clock
SessionLifetime == 1

\* The rows that sessions may hold
MaxSessions == 2

\* The rows that users may hold
MaxUsers == 3

\* the error of a statement whose context is cancelled
ErrCanceled == "context canceled"

\* The :account_id of the request path; the last one is no UUID.
TodoPathIDs == TodoAccountIDs \cup { "not-a-uuid" }

\* The path and the cookie of a request to an endpoint behind authorize:
\* each account with no cookie or the cookie of a session, one request whose
\* path is no UUID and one whose cookie is no UUID.
TodoRequests ==
    { [ path |-> a, cookie |-> c ] : a \in TodoAccountIDs, c \in 0 .. MaxSessions }
    \cup { [ path |-> "not-a-uuid", cookie |-> 0 ],
           [ path |-> "a1", cookie |-> -1 ] }

\* uuid.Parse(accountID)
AccountUUIDOK(accountID) == accountID \in TodoAccountIDs

\* fmt.Sprintf("http://localhost:8080/accounts/%s/saml", accountID)
ExpectedDestinationID(accountID) ==
    IF accountID = "a1" THEN "http://localhost:8080/accounts/a1/saml"
    ELSE "http://localhost:8080/accounts/a2/saml"

\* The metadata documents uploaded to the todo app: one that extracts for
\* each identity provider, one whose location does not parse and one body
\* that is not XML.
TodoUploads ==
    { u \in HelloUploads :
        /\ u.metadata.SingleSignOnServices[1].Binding =
              SingleSignOnServiceBindingHTTPRedirect
        /\ u.xmlOK \/ ( /\ u.metadata.EntityID = "idp-b"
                        /\ u.metadata.SingleSignOnServices[1].Location.wellFormed ) }

\* Responses posted to saml/acs, for either account: signed by the identity
\* provider idp-a under its own name, signed with the same key under the
\* name of idp-b, or unsigned.
TodoDocs ==
    { [ syntax |-> "ok", root |-> "Response", unknown |-> FALSE,
        SignatureValue |-> sv, signer |-> k,
        AssertionSignatureValue |-> << >>,
        Issuer |-> << i >>, Recipient |-> << ExpectedDestinationID(a) >>,
        NameID |-> << "alice" >>, Attributes |-> DefaultAttributes,
        NotBefore |-> << 1 >>, NotOnOrAfter |-> << MaxTime + 1 >>,
        SCDNotOnOrAfter |-> << MaxTime + 1 >> ] :
      <<sv, k, i>> \in { << << "c2ln" >>, "k1", "idp-a" >>,
                         << << "c2ln" >>, "k1", "idp-b" >>,
                         << << >>, "nobody", "idp-a" >> },
      a \in TodoAccountIDs }

\* store.getAccount
getAccount(table, id) ==
    IF table[id].exists
    THEN [ account |-> [ id |-> id, saml_issuer |-> table[id].saml_issuer,
                         saml_x509 |-> table[id].saml_x509,
                         saml_redirect_url |-> table[id].saml_redirect_url ],
           err |-> NoErr ]
    ELSE [ account |-> [ id |-> "", saml_issuer |-> << >>, saml_x509 |-> << >>,
                         saml_redirect_url |-> << >> ],
           err |-> ErrNoRows ]

\* store.updateAccount: one update statement; no row, no change.
updateAccount(table, a) ==
    IF ~ table[a.id].exists THEN table
    ELSE [ table EXCEPT ![a.id] =
             [ exists |-> TRUE, saml_issuer |-> a.saml_issuer,
               saml_x509 |-> a.saml_x509,
               saml_redirect_url |-> a.saml_redirect_url ] ]

\* user{}: the zero value
ZeroUser == [ id |-> 0, account_id |-> "", saml_id |-> << >>, password |-> FALSE ]

\* store.getUser
getUser(users, id) ==
    IF id \in 1 .. Len(users) THEN [ u |-> users[id], err |-> NoErr ]
    ELSE [ u |-> ZeroUser, err |-> ErrNoRows ]

\* The rows that a lookup by saml_id selects.
SAMLIDRows(users, accountID, samlID) ==
    { i \in 1 .. Len(users) :
        users[i].account_id = accountID /\ users[i].saml_id = << samlID >> }

\* Variant: the lookup forgets the account.
getUserBySAMLID_AnyAccount(users, accountID, samlID) ==
    LET rows == { i \in 1 .. Len(users) : users[i].saml_id = << samlID >> } IN
    IF rows = { } THEN [ u |-> ZeroUser, err |-> ErrNoRows ]
    ELSE [ u |-> users[CHOOSE i \in rows : \A j \in rows : i <= j],
           err |-> NoErr ]

\* store.getUserBySAMLID: where account_id = $1 and saml_id = $2
getUserBySAMLID(users, accountID, samlID) ==
    LET rows == SAMLIDRows(users, accountID, samlID) IN
    IF rows = { } THEN [ u |-> ZeroUser, err |-> ErrNoRows ]
    ELSE [ u |-> users[CHOOSE i \in rows : \A j \in rows : i <= j],
           err |-> NoErr ]

\* uuid.New(): the id of the next row
NewID(rows) == Len(rows) + 1

\* Variant: the table has no unique (account_id, saml_id).
createUser_NoUnique(users, u) ==
    [ users |-> Append(users, u), err |-> NoErr ]

\* store.createUser: the insert fails on unique (account_id, saml_id); a
\* NULL saml_id never conflicts.
createUser(users, u) ==
    IF u.saml_id # << >> /\ SAMLIDRows(users, u.account_id, u.saml_id[1]) # { }
    THEN [ users |-> users, err |-> ErrUniqueViolation ]
    ELSE [ users |-> Append(users, u), err |-> NoErr ]

\* store.getSession
getSession(sessions, id) ==
    IF id \in 1 .. Len(sessions) THEN [ sess |-> sessions[id], err |-> NoErr ]
    ELSE [ sess |-> [ id |-> 0, user_id |-> 0, expires_at |-> ZeroTime ],
           err |-> ErrNoRows ]

\* issueSession: a session that expires 24 hours from now
issueSession(sessions, u, now) ==
    Append(sessions, [ id |-> NewID(sessions), user_id |-> u.id,
                       expires_at |-> now + SessionLifetime ])

\* Variant: the account of the session's user is not compared.
authorize_AnyAccount(sessions, users, cookie, accountID) ==
    IF cookie = 0
    THEN [ user |-> ZeroUser, err |-> ErrUnauthorized,
           status |-> StatusUnauthorized ]
    ELSE IF cookie < 0 THEN [ user |-> ZeroUser, err |-> ErrUUID, status |-> 0 ]
    ELSE
    LET s == getSession(sessions, cookie) IN
    IF s.err # NoErr THEN [ user |-> ZeroUser, err |-> s.err, status |-> 0 ]
    ELSE
    LET g == getUser(users, s.sess.user_id) IN
    IF g.err # NoErr THEN [ user |-> ZeroUser, err |-> g.err, status |-> 0 ]
    ELSE [ user |-> g.u, err |-> NoErr, status |-> 0 ]

\* authorize: the session of the cookie, its user, and the user's account
\* compared with the account of the path.  status is the status it wrote:
\* 401 without a cookie, 403 for a user of another account, 0 for none.
authorize(sessions, users, cookie, accountID) ==
    IF cookie = 0
    THEN [ user |-> ZeroUser, err |-> ErrUnauthorized,
           status |-> StatusUnauthorized ]
    ELSE IF cookie < 0 THEN [ user |-> ZeroUser, err |-> ErrUUID, status |-> 0 ]
    ELSE
    LET s == getSession(sessions, cookie) IN
    IF s.err # NoErr THEN [ user |-> ZeroUser, err |-> s.err, status |-> 0 ]
    ELSE
    LET g == getUser(users, s.sess.user_id) IN
    IF g.err # NoErr THEN [ user |-> ZeroUser, err |-> g.err, status |-> 0 ]
    ELSE IF g.u.account_id # accountID
    THEN [ user |-> ZeroUser, err |-> ErrUnauthorized,
           status |-> StatusForbidden ]
    ELSE [ user |-> g.u, err |-> NoErr, status |-> 0 ]

InitTodo ==
    /\ taccounts = [ a \in TodoAccountIDs |-> NoAccount ]
    /\ tusers = << >>
    /\ tsessions = << >>
    /\ tnow = 1
    /\ tsignup = [ pc |-> "idle" ]
    /\ tacs = [ w \in AcsWorkers |-> [ pc |-> "idle" ] ]
    /\ treq = NoRequest
    /\ VerifyOff
    /\ MetaOff
    /\ HelloOff
    /\ PersistOff
    /\ ConcOff

\* The answer of a handler that returned nil after its work: the request
\* it served and the status it wrote.
Answered(handler, account, cookie, user, status) ==
    [ handler |-> handler, account |-> account, cookie |-> cookie,
      user |-> user, err |-> NoErr, status |-> status ]

\* with500: the handler returned err; status 500 and the text of the error
\* are written, whatever the handler and the request.  WriteHeader has no
\* effect on a response whose status authorize has written already.
Failed(err, written) ==
    [ handler |-> "", account |-> "", cookie |-> 0, user |-> 0, err |-> err,
      status |-> IF written = 0 THEN StatusInternalServerError ELSE written ]

\* The handler returned nil although authorize failed: nothing is written
\* besides the status of authorize, if it wrote one.
Denied(written) ==
    [ handler |-> "", account |-> "", cookie |-> 0, user |-> 0, err |-> NoErr,
      status |-> IF written = 0 THEN StatusOK ELSE written ]

\* The handler panicked on a nil pointer: net/http recovers and closes the
\* connection.
Panicked(err) ==
    [ handler |-> "", account |-> "", cookie |-> 0, user |-> 0, err |-> err,
      status |-> StatusAborted ]

\* store.createAccount: insert into accounts (id) values ($1)
createAccount(table, id) == [ table EXCEPT ![id].exists = TRUE ]

\* POST /accounts, first statement: a := account{ID: uuid.New()} and
\* store.createAccount.  The statements of the handler run one after another
\* without a transaction.
TodoSignupAccount ==
    /\ tsignup.pc = "idle"
    /\ \E a \in TodoAccountIDs :
        /\ ~ taccounts[a].exists
        /\ a = "a1" \/ taccounts["a1"].exists
        /\ taccounts' = createAccount(taccounts, a)
        /\ tsignup' = [ pc |-> "user", account |-> a, user |-> ZeroUser ]
    /\ UNCHANGED <<tusers, tsessions, tnow, tacs, treq>>
    /\ UNCHANGED <<verifyVars, metaVars, helloVars, persistVars, concVars>>

\* POST /accounts, second statement: store.createUser of the root user
TodoSignupUser ==
    /\ tsignup.pc = "user"
    /\ Len(tusers) < MaxUsers
    /\ LET u == [ id |-> NewID(tusers), account_id |-> tsignup.account,
                  saml_id |-> << >>, password |-> TRUE ]
           created == createUser(tusers, u)
       IN IF created.err # NoErr
          THEN /\ treq' = Failed(created.err, 0)
               /\ tsignup' = [ pc |-> "idle" ]
               /\ UNCHANGED tusers
          ELSE /\ tusers' = created.users
               /\ tsignup' = [ tsignup EXCEPT !.pc = "session", !.user = u ]
               /\ UNCHANGED treq
    /\ UNCHANGED <<taccounts, tsessions, tnow, tacs>>
    /\ UNCHANGED <<verifyVars, metaVars, helloVars, persistVars, concVars>>

\* POST /accounts, third statement: issueSession and the redirect
TodoSignupSession ==
    /\ tsignup.pc = "session"
    /\ Len(tsessions) < MaxSessions
    /\ tsessions' = issueSession(tsessions, tsignup.user, tnow)
    /\ treq' = Answered("signup", tsignup.account, 0, tsignup.user.id,
                        StatusFound)
    /\ tsignup' = [ pc |-> "idle" ]
    /\ UNCHANGED <<taccounts, tusers, tnow, tacs>>
    /\ UNCHANGED <<verifyVars, metaVars, helloVars, persistVars, concVars>>

\* POST /accounts: bcrypt.GenerateFromPassword, store.createUser or
\* issueSession returns an error (the context of the request is cancelled);
\* the handler returns it and the rows written so far stay.
TodoSignupError ==
    /\ tsignup.pc \in { "user", "session" }
    /\ treq' = Failed(ErrCanceled, 0)
    /\ tsignup' = [ pc |-> "idle" ]
    /\ UNCHANGED <<taccounts, tusers, tsessions, tnow, tacs>>
    /\ UNCHANGED <<verifyVars, metaVars, helloVars, persistVars, concVars>>

\* POST /login: a session for the user whose password was given
TodoLogin ==
    /\ Len(tsessions) < MaxSessions
    /\ \E id \in 0 .. Len(tusers), passwordOK \in BOOLEAN :
        LET g == getUser(tusers, id) IN
        IF g.err # NoErr
        THEN /\ treq' = Failed(g.err, 0)
             /\ UNCHANGED tsessions
        ELSE IF ~ ( g.u.password /\ passwordOK )
        THEN /\ treq' = Failed(ErrPassword, 0)
             /\ UNCHANGED tsessions
        ELSE /\ tsessions' = issueSession(tsessions, g.u, tnow)
             /\ treq' = Answered("login", g.u.account_id, 0, g.u.id, StatusFound)
    /\ UNCHANGED <<taccounts, tusers, tnow, tsignup, tacs>>
    /\ UNCHANGED <<verifyVars, metaVars, helloVars, persistVars, concVars>>

\* GET /accounts/:account_id: shown to an authorized user only; when
\* authorize fails the handler returns nil, not the error
TodoGetAccount ==
    /\ \E req \in TodoRequests :
        LET auth == authorize(tsessions, tusers, req.cookie, req.path) IN
        IF auth.err # NoErr THEN treq' = Denied(auth.status)
        ELSE treq' = Answered("account", req.path, req.cookie, auth.user.id,
                              StatusOK)
    /\ UNCHANGED <<taccounts, tusers, tsessions, tnow, tsignup, tacs>>
    /\ UNCHANGED <<verifyVars, metaVars, helloVars, persistVars, concVars>>

\* POST /accounts/:account_id/users: an authorized user adds a user with a
\* password and no saml_id to the account
TodoCreateUser ==
    /\ Len(tusers) < MaxUsers
    /\ \E req \in TodoRequests :
        LET path == req.path
            cookie == req.cookie
            auth == authorize(tsessions, tusers, cookie, path)
            u == [ id |-> NewID(tusers), account_id |-> path,
                   saml_id |-> << >>, password |-> TRUE ]
            created == createUser(tusers, u)
        IN IF auth.err # NoErr
           THEN /\ treq' = Failed(auth.err, auth.status)
                /\ UNCHANGED tusers
           ELSE IF ~ AccountUUIDOK(path)
           THEN /\ treq' = Failed(ErrUUID, 0)
                /\ UNCHANGED tusers
           ELSE IF created.err # NoErr
           THEN /\ treq' = Failed(created.err, 0)
                /\ UNCHANGED tusers
           ELSE /\ tusers' = created.users
                /\ treq' = Answered("users", path, cookie, auth.user.id,
                                    StatusFound)
    /\ UNCHANGED <<taccounts, tsessions, tnow, tsignup, tacs>>
    /\ UNCHANGED <<verifyVars, metaVars, helloVars, persistVars, concVars>>

\* POST /accounts/:account_id/metadata: authorize, then the uploaded file is
\* read and decoded, and one update statement stores the three values
TodoMetadata ==
    /\ \E req \in TodoRequests :
        LET path == req.path
            cookie == req.cookie
            auth == authorize(tsessions, tusers, cookie, path)
        IN IF auth.err # NoErr
           THEN /\ treq' = Denied(auth.status)
                /\ UNCHANGED taccounts
           ELSE IF ~ AccountUUIDOK(path)
           THEN /\ treq' = Failed(ErrUUID, 0)
                /\ UNCHANGED taccounts
           ELSE \E upload \in TodoUploads :
                LET dec == DecodeMetadata(upload)
                    ex == GetEntityIDCertificateAndRedirectURL(dec.metadata)
                IN IF dec.err # NoErr \/ ex.err # NoErr
                   THEN /\ treq' = Failed(IF dec.err # NoErr THEN dec.err
                                         ELSE ex.err, 0)
                        /\ UNCHANGED taccounts
                   ELSE /\ taccounts' =
                             updateAccount(taccounts,
                                 [ id |-> path, saml_issuer |-> << ex.issuer >>,
                                   saml_x509 |-> << Raw(ex.cert[1]) >>,
                                   saml_redirect_url |-> << String(ex.url[1]) >> ])
                        /\ treq' = Answered("metadata", path, cookie,
                                            auth.user.id, StatusFound)
    /\ UNCHANGED <<tusers, tsessions, tnow, tsignup, tacs>>
    /\ UNCHANGED <<verifyVars, metaVars, helloVars, persistVars, concVars>>

\* GET /accounts/:account_id/saml/initiate: no authorization; a redirect to
\* *account.SAMLRedirectURL, a nil pointer for an account without metadata
TodoInitiate ==
    /\ \E path \in TodoPathIDs :
        IF ~ AccountUUIDOK(path) THEN treq' = Failed(ErrUUID, 0)
        ELSE
        LET got == getAccount(taccounts, path) IN
        IF got.err # NoErr THEN treq' = Failed(got.err, 0)
        ELSE IF got.account.saml_redirect_url = << >>
        THEN treq' = Panicked(ErrNilDereference)
        ELSE treq' = Answered("initiate", path, 0, 0, StatusFound)
    /\ UNCHANGED <<taccounts, tusers, tsessions, tnow, tsignup, tacs>>
    /\ UNCHANGED <<verifyVars, metaVars, helloVars, persistVars, concVars>>

\* The user that saml/acs creates for a NameID without a user
ProvisionedUser(users, accountID, samlUserID) ==
    [ id |-> NewID(users), account_id |-> accountID,
      saml_id |-> << samlUserID >>, password |-> FALSE ]

\* POST /accounts/:account_id/saml/acs up to saml.Verify: the account is
\* read, its certificate parsed and the response verified against the
\* account as it was read.  A failure answers 500.
TodoAcsVerify(w) ==
    /\ tacs[w].pc = "idle"
    /\ \E path \in TodoPathIDs, data \in TodoDocs :
        LET got == getAccount(taccounts, path) IN
        IF ~ AccountUUIDOK(path)
        THEN /\ treq' = Failed(ErrUUID, 0)
             /\ UNCHANGED tacs
        ELSE IF got.err # NoErr
        THEN /\ treq' = Failed(got.err, 0)
             /\ UNCHANGED tacs
        ELSE IF got.account.saml_x509 = << >>
        THEN /\ treq' = Failed(ErrCertificate, 0)
             /\ UNCHANGED tacs
        ELSE
        LET pcert == ParseCertificate(got.account.saml_x509[1]) IN
        IF pcert.err # NoErr
        THEN /\ treq' = Failed(pcert.err, 0)
             /\ UNCHANGED tacs
        ELSE IF got.account.saml_issuer = << >>
        THEN /\ treq' = Panicked(ErrNilDereference)
             /\ UNCHANGED tacs
        ELSE
        LET v == Verify([ encoding |-> "std", payload |-> data ],
                        got.account.saml_issuer[1], pcert.cert[1],
                        ExpectedDestinationID(path), tnow)
        IN IF v.err # NoErr
           THEN /\ treq' = Failed(v.err, 0)
                /\ UNCHANGED tacs
           ELSE /\ tacs' = [ tacs EXCEPT ![w] =
                               [ pc |-> "lookup", account |-> path,
                                 data |-> data,
                                 samlUserID |->
                                   v.response.Assertion.Subject.NameID.Value,
                                 loginUser |-> ZeroUser ] ]
                /\ UNCHANGED treq
    /\ UNCHANGED <<taccounts, tusers, tsessions, tnow, tsignup>>
    /\ UNCHANGED <<verifyVars, metaVars, helloVars, persistVars, concVars>>

\* saml/acs: store.getUserBySAMLID, a second query, run after Verify
\* returned; the user found is the one to log in, sql.ErrNoRows leads to
\* just-in-time provisioning.
TodoAcsLookup(w) ==
    /\ tacs[w].pc = "lookup"
    /\ LET existing == getUserBySAMLID(tusers, tacs[w].account,
                                       tacs[w].samlUserID)
       IN IF existing.err = NoErr
          THEN tacs' = [ tacs EXCEPT ![w].pc = "session",
                                     ![w].loginUser = existing.u ]
          ELSE tacs' = [ tacs EXCEPT ![w].pc = "create" ]
    /\ UNCHANGED <<taccounts, tusers, tsessions, tnow, tsignup, treq>>
    /\ UNCHANGED <<verifyVars, metaVars, helloVars, persistVars, concVars>>

\* saml/acs, just-in-time provisioning: store.createUser
TodoAcsCreate(w) ==
    /\ tacs[w].pc = "create"
    /\ Len(tusers) < MaxUsers
    /\ LET u == ProvisionedUser(tusers, tacs[w].account, tacs[w].samlUserID)
           created == createUser(tusers, u)
       IN IF created.err # NoErr
          THEN /\ treq' = Failed(created.err, 0)
               /\ tacs' = [ tacs EXCEPT ![w] = [ pc |-> "idle" ] ]
               /\ UNCHANGED tusers
          ELSE /\ tusers' = created.users
               /\ tacs' = [ tacs EXCEPT ![w].pc = "session", ![w].loginUser = u ]
               /\ UNCHANGED treq
    /\ UNCHANGED <<taccounts, tsessions, tnow, tsignup>>
    /\ UNCHANGED <<verifyVars, metaVars, helloVars, persistVars, concVars>>

\* saml/acs: issueSession for loginUser and the redirect to the account
TodoAcsSession(w) ==
    /\ tacs[w].pc = "session"
    /\ Len(tsessions) < MaxSessions
    /\ tsessions' = issueSession(tsessions, tacs[w].loginUser, tnow)
    /\ treq' = Answered("acs", tacs[w].account, 0, tacs[w].loginUser.id,
                        StatusFound)
    /\ tacs' = [ tacs EXCEPT ![w] = [ pc |-> "idle" ] ]
    /\ UNCHANGED <<taccounts, tusers, tnow, tsignup>>
    /\ UNCHANGED <<verifyVars, metaVars, helloVars, persistVars, concVars>>

\* saml/acs: store.getUserBySAMLID, store.createUser or issueSession
\* returns an error other than the ones above (the context of the request
\* is cancelled); the handler returns it and the rows written so far stay.
TodoAcsError(w) ==
    /\ tacs[w].pc \in { "lookup", "create", "session" }
    /\ treq' = Failed(ErrCanceled, 0)
    /\ tacs' = [ tacs EXCEPT ![w] = [ pc |-> "idle" ] ]
    /\ UNCHANGED <<taccounts, tusers, tsessions, tnow, tsignup>>
    /\ UNCHANGED <<verifyVars, metaVars, helloVars, persistVars, concVars>>

\* Time passes.
TodoTick ==
    /\ tnow < MaxTime
    /\ tnow' = tnow + 1
    /\ UNCHANGED <<taccounts, tusers, tsessions, tsignup, tacs, treq>>
    /\ UNCHANGED <<verifyVars, metaVars, helloVars, persistVars, concVars>>

\* The handlers of the todo app that read or write accounts, users and
\* sessions, two saml/acs requests at a time, at one instant of the clock:
\* the responses posted are valid at every instant, and the clock shows
\* only in expires_at, which no handler reads.
NextTodo ==
    \/ TodoSignupAccount
    \/ TodoSignupUser
    \/ TodoSignupSession
    \/ TodoSignupError
    \/ TodoLogin
    \/ TodoGetAccount
    \/ TodoCreateUser
    \/ TodoMetadata
    \/ TodoInitiate
    \/ \E w \in AcsWorkers :
        \/ TodoAcsVerify(w)
        \/ TodoAcsLookup(w)
        \/ TodoAcsCreate(w)
        \/ TodoAcsSession(w)
        \/ TodoAcsError(w)

SpecTodo == InitTodo /\ [][NextTodo]_vars

\* The same handlers while time passes, one saml/acs request at a time
NextTodoSession ==
    \/ TodoSignupAccount
    \/ TodoSignupUser
    \/ TodoSignupSession
    \/ TodoSignupError
    \/ TodoLogin
    \/ TodoGetAccount
    \/ TodoCreateUser
    \/ TodoMetadata
    \/ TodoInitiate
    \/ TodoAcsVerify("w1")
    \/ TodoAcsLookup("w1")
    \/ TodoAcsCreate("w1")
    \/ TodoAcsSession("w1")
    \/ TodoAcsError("w1")
    \/ TodoTick

SpecTodoSession == InitTodo /\ [][NextTodoSession]_vars

----------------------------------------------------------------------------
\* Calls of Verify in several goroutines, one statement group at a time

\* Responses that differ in issuer, signer and well-formedness.
ConcDocs ==
    [ syntax : { "ok" }, root : { "Response" }, unknown : { FALSE },
      SignatureValue : One({ "c2ln" }), signer : { "k1" },
      AssertionSignatureValue : { << >> },
      Issuer : One({ "idp-a", "idp-b" }),
      Recipient : One({ "https://sp.example/acs" }),
      NameID : One({ "alice" }), Attributes : { DefaultAttributes },
      NotBefore : One({ 1 }), NotOnOrAfter : One({ 2 }),
      SCDNotOnOrAfter : One({ 2 }) ]
    \cup
    [ syntax : { "ok", "malformed" }, root : { "Response" }, unknown : { FALSE },
      SignatureValue : { << >> }, signer : { "nobody" },
      AssertionSignatureValue : { << >> },
      Issuer : One({ "idp-a" }),
      Recipient : One({ "https://sp.example/acs" }),
      NameID : One({ "alice" }), Attributes : { DefaultAttributes },
      NotBefore : One({ 1 }), NotOnOrAfter : One({ 2 }),
      SCDNotOnOrAfter : One({ 2 }) ]

ConcArgs ==
    [ samlResponse :
        [ encoding : { "std" }, payload : ConcDocs ]
        \cup [ encoding : { "corrupt" }, payload : { NilData } ],
      issuer : { "idp-a" },
      cert : { [ PublicKey |-> "k1", NotAfter |-> MaxTime + 1 ] },
      recipient : { "https://sp.example/acs" },
      now : { 1, MaxTime } ]

NoResult == [ response |-> ZeroResponse, err |-> NoErr ]

\* A call that is about to run its first statement.
Entered(a) == [ args |-> a, pc |-> "decode", ret |-> NoResult ]

\* A goroutine that has not called Verify yet.
Idle ==
    [ args |-> [ samlResponse |-> [ encoding |-> "corrupt", payload |-> NilData ],
                 issuer |-> "", cert |-> [ PublicKey |-> "", NotAfter |-> ZeroTime ],
                 recipient |-> "", now |-> ZeroTime ],
      pc |-> "idle", ret |-> NoResult ]

InitConc ==
    /\ frames = [ c \in Callers |-> Idle ]
    /\ locals = [ c \in Callers |-> NoLocals ]
    /\ VerifyOff
    /\ MetaOff
    /\ HelloOff
    /\ PersistOff
    /\ TodoOff

\* Variant: data and response are package-level variables.
Slot_Shared(c) == 1

\* data and response are local variables of Verify: each call has its own.
Slot(c) == c

\* return: the call is over and its local variables are gone.
ConcReturn(c, response, e) ==
    /\ frames' = [ frames EXCEPT ![c].pc = "done",
                                 ![c].ret = [ response |-> response, err |-> e ] ]
    /\ locals' = [ locals EXCEPT ![Slot(c)] = NoLocals ]

\* data, err := base64.StdEncoding.DecodeString(samlResponse)
DecodeStep(c) ==
    /\ frames[c].pc = "decode"
    /\ LET dec == DecodeString(frames[c].args.samlResponse) IN
       IF dec.err # NoErr THEN ConcReturn(c, ZeroResponse, dec.err)
       ELSE /\ frames' = [ frames EXCEPT ![c].pc = "unmarshal" ]
            /\ locals' = [ locals EXCEPT ![Slot(c)].data = dec.data ]
    /\ UNCHANGED <<verifyVars, metaVars, helloVars, persistVars, todoVars>>

\* var response Response; xml.Unmarshal(data, &response)
UnmarshalStep(c) ==
    /\ frames[c].pc = "unmarshal"
    /\ LET un == Unmarshal(locals[Slot(c)].data) IN
       IF un.err # NoErr THEN ConcReturn(c, ZeroResponse, un.err)
       ELSE /\ frames' = [ frames EXCEPT ![c].pc = "checks" ]
            /\ locals' = [ locals EXCEPT ![Slot(c)].response = un.response ]
    /\ UNCHANGED <<verifyVars, metaVars, helloVars, persistVars, todoVars>>

\* The signature check and the checks after it, which read data, response
\* and the arguments.
ChecksStep(c) ==
    /\ frames[c].pc = "checks"
    /\ LET a == frames[c].args
           data == locals[Slot(c)].data
           response == locals[Slot(c)].response
           input == DecoderInput(data, response)
           serr == SignatureVerify(response.Signature, a.cert, input)
       IN IF NotSigned(response)
          THEN ConcReturn(c, ZeroResponse, ErrResponseNotSigned)
          ELSE IF serr # NoErr THEN ConcReturn(c, ZeroResponse, serr)
          ELSE LET r == Return(response,
                               BusinessError(response, a.issuer, a.recipient,
                                             a.now), << >>)
               IN ConcReturn(c, r.response, r.err)
    /\ UNCHANGED <<verifyVars, metaVars, helloVars, persistVars, todoVars>>

\* The goroutine calls Verify, for the first time or again.
ConcCall(c) ==
    /\ frames[c].pc \in { "idle", "done" }
    /\ \E a \in ConcArgs : frames' = [ frames EXCEPT ![c] = Entered(a) ]
    /\ UNCHANGED locals
    /\ UNCHANGED <<verifyVars, metaVars, helloVars, persistVars, todoVars>>

NextConc ==
    \E c \in Callers :
        \/ ConcCall(c)
        \/ DecodeStep(c)
        \/ UnmarshalStep(c)
        \/ ChecksStep(c)

SpecConc == InitConc /\ [][NextConc]_vars

----------------------------------------------------------------------------
\* The state machine: one call of Verify

Init ==
    /\ args \in Args
    /\ pc = "called"
    /\ ret = [ response |-> ZeroResponse, err |-> NoErr ]
    /\ collab = << >>
    /\ MetaOff
    /\ HelloOff
    /\ PersistOff
    /\ ConcOff
    /\ TodoOff

VerifyCall ==
    /\ pc = "called"
    /\ LET r == Verify(args.samlResponse, args.issuer, args.cert,
                       args.recipient, args.now) IN
        /\ ret' = [ response |-> r.response, err |-> r.err ]
        /\ collab' = r.calls
    /\ pc' = "returned"
    /\ UNCHANGED args
    /\ UNCHANGED <<metaVars, helloVars, persistVars, concVars, todoVars>>

Next == VerifyCall

Spec == Init /\ [][Next]_vars

----------------------------------------------------------------------------
\* Vocabulary of the properties, in terms of the call's arguments

Returned == pc = "returned"

doc == args.samlResponse.payload

\* The input base64-decodes and parses as a Response.
Parses ==
    /\ DecodeString(args.samlResponse).err = NoErr
    /\ Unmarshal(doc).err = NoErr

\* The top-level signature value of the document is non-empty.
HasSignatureValue == Chardata(doc.SignatureValue) # ""

\* The signature over the document was made with the key of the caller's cert.
SignedByCert == doc.signer = args.cert.PublicKey

ValidlySigned == Parses /\ HasSignatureValue /\ SignedByCert

IssuerOK == Chardata(doc.Issuer) = args.issuer

RecipientOK == Chardata(doc.Recipient) = args.recipient

DocNotBefore == TimeAttr(doc.NotBefore)

DocNotOnOrAfter == TimeAttr(doc.NotOnOrAfter)

DocSCDNotOnOrAfter == TimeAttr(doc.SCDNotOnOrAfter)

InWindow ==
    /\ DocNotBefore <= args.now
    /\ args.now <= DocNotOnOrAfter
    /\ args.now <= DocSCDNotOnOrAfter

----------------------------------------------------------------------------
\* C1: an input that decodes, parses and has a non-empty signature value, but
\* whose signature the collaborator rejects, makes Verify return the signature
\* failure, whatever the issuer, the recipient and now are.
C1_SignatureFirst ==
    (Returned /\ Parses /\ HasSignatureValue /\ ~ SignedByCert)
        => ret.err = ErrSignature

\* A forged signature together with a wrong issuer, a wrong recipient and a
\* now outside the window; the signature failure is what comes back.
C1_Witness ==
    /\ Returned /\ Parses /\ HasSignatureValue /\ ~ SignedByCert
    /\ ~ IssuerOK /\ ~ RecipientOK /\ ~ InWindow
    /\ ret.err = ErrSignature

\* C2: when Verify returns a nil error, the collaborator was invoked with the
\* caller's certificate and accepted, and issuer and recipient of the returned
\* response equal the expected ones.
C2_NoCheckSkipped ==
    (Returned /\ ret.err = NoErr) =>
        /\ Len(collab) = 1
        /\ collab[1].cert = args.cert
        /\ SignedByCert
        /\ ret.response.Assertion.Issuer.Name = args.issuer
        /\ ret.response.Assertion.Subject.SubjectConfirmation.SubjectConfirmationData.Recipient
               = args.recipient

\* An accepted response.
C2_Witness ==
    /\ Returned /\ ret.err = NoErr
    /\ ret.response.Assertion.Issuer.Name = "idp-b"
    /\ Len(collab) = 1

\* C3: an input that decodes and parses and whose signature value is empty
\* makes Verify return ErrResponseNotSigned, whatever the rest is.
C3_Unsigned ==
    (Returned /\ Parses /\ ~ HasSignatureValue) => ret.err = ErrResponseNotSigned

\* An unsigned response whose issuer, recipient and window would all pass.
C3_Witness ==
    /\ Returned /\ Parses /\ ~ HasSignatureValue
    /\ IssuerOK /\ RecipientOK /\ InWindow /\ args.now > 0
    /\ ret.err = ErrResponseNotSigned

\* C4: for a validly signed response with matching issuer and recipient,
\* Verify returns ErrAssertionExpired whenever now >= Conditions.NotOnOrAfter.
C4_ConditionsBoundaryExclusive ==
    (Returned /\ ValidlySigned /\ IssuerOK /\ RecipientOK
        /\ args.now >= DocNotOnOrAfter)
        => ret.err = ErrAssertionExpired

\* C5: for a validly signed response with matching issuer and recipient and
\* now inside the Conditions window, Verify returns ErrAssertionExpired
\* whenever now >= SubjectConfirmationData.NotOnOrAfter.
C5_ConfirmationBoundaryExclusive ==
    (Returned /\ ValidlySigned /\ IssuerOK /\ RecipientOK
        /\ DocNotBefore <= args.now /\ args.now < DocNotOnOrAfter
        /\ args.now >= DocSCDNotOnOrAfter)
        => ret.err = ErrAssertionExpired

\* C6: for a validly signed response with matching issuer and recipient,
\* now < NotBefore is rejected with ErrAssertionExpired, and now == NotBefore
\* is accepted when now is before both NotOnOrAfter values.
C6_NotBeforeInclusive ==
    (Returned /\ ValidlySigned /\ IssuerOK /\ RecipientOK) =>
        /\ args.now < DocNotBefore => ret.err = ErrAssertionExpired
        /\ ( args.now = DocNotBefore /\ args.now < DocNotOnOrAfter
             /\ args.now < DocSCDNotOnOrAfter ) => ret.err = NoErr

\* now == NotBefore, before both NotOnOrAfter values, accepted.
C6_Witness ==
    /\ Returned /\ ValidlySigned /\ IssuerOK /\ RecipientOK
    /\ args.now = DocNotBefore /\ args.now > 0
    /\ args.now < DocNotOnOrAfter /\ args.now < DocSCDNotOnOrAfter
    /\ ret.err = NoErr

\* C7: a response returned with a nil error has NotBefore <= now <=
\* Conditions.NotOnOrAfter and now <= SubjectConfirmationData.NotOnOrAfter; a
\* validly signed response with matching issuer and recipient verified with
\* now strictly after either NotOnOrAfter yields ErrAssertionExpired.
C7_AcceptedInWindow ==
    /\ (Returned /\ ret.err = NoErr) =>
          /\ ret.response.Assertion.Conditions.NotBefore <= args.now
          /\ args.now <= ret.response.Assertion.Conditions.NotOnOrAfter
          /\ args.now <= ret.response.Assertion.Subject.SubjectConfirmation.SubjectConfirmationData.NotOnOrAfter
          /\ InWindow
    /\ ( Returned /\ ValidlySigned /\ IssuerOK /\ RecipientOK
         /\ (args.now > DocNotOnOrAfter \/ args.now > DocSCDNotOnOrAfter) )
          => ret.err = ErrAssertionExpired

\* now inside the Conditions window but after the confirmation's
\* NotOnOrAfter: rejected as expired.
C7_Witness ==
    /\ Returned /\ ValidlySigned /\ IssuerOK /\ RecipientOK
    /\ DocNotBefore <= args.now /\ args.now <= DocNotOnOrAfter
    /\ args.now > DocSCDNotOnOrAfter /\ DocSCDNotOnOrAfter > 0
    /\ ret.err = ErrAssertionExpired

\* C8: a validly signed response whose issuer differs from the expected one in
\* any way makes Verify return ErrInvalidIssuer, whether or not the recipient
\* mismatches too and whether or not now is outside the window.
C8_IssuerMismatch ==
    (Returned /\ ValidlySigned /\ ~ IssuerOK) => ret.err = ErrInvalidIssuer

\* An issuer that differs only in case, with a wrong recipient and an expired
\* window.
C8_Witness ==
    /\ Returned /\ ValidlySigned
    /\ Chardata(doc.Issuer) = "IDP-A" /\ args.issuer = "idp-a"
    /\ ~ RecipientOK /\ args.now > DocNotOnOrAfter
    /\ ret.err = ErrInvalidIssuer

\* C9: a validly signed response whose issuer matches and whose recipient
\* differs from the expected one makes Verify return ErrInvalidRecipient,
\* whether or not now is outside the window.
C9_RecipientMismatch ==
    (Returned /\ ValidlySigned /\ IssuerOK /\ ~ RecipientOK)
        => ret.err = ErrInvalidRecipient

\* A wrong recipient on a response that is also not yet valid.
C9_Witness ==
    /\ Returned /\ ValidlySigned /\ IssuerOK /\ ~ RecipientOK
    /\ args.now < DocNotBefore
    /\ ret.err = ErrInvalidRecipient

\* C10: Verify returns either a non-empty response with a nil error or the
\* zero Response with a non-nil error, on every path.
C10_NoPartialResult ==
    Returned =>
        \/ ret.err = NoErr /\ ret.response # ZeroResponse
        \/ ret.err # NoErr /\ ret.response = ZeroResponse

\* A failure after parsing: the document states an issuer, the zero Response
\* comes back.
C10_Witness ==
    /\ Returned /\ ValidlySigned /\ Chardata(doc.Issuer) # ""
    /\ ret.err = ErrAssertionExpired
    /\ ret.response = ZeroResponse

----------------------------------------------------------------------------
\* C11: the collaborator is handed exactly the bytes that the caller's input
\* decodes to, and exactly the caller's certificate; it is invoked whenever
\* the input parses and carries a signature value.
C11_OriginalBytes ==
    Returned =>
        /\ Len(collab) > 0 => collab = << [ cert |-> args.cert, data |-> doc ] >>
        /\ (Parses /\ HasSignatureValue) => Len(collab) = 1

\* An accepted document holding elements the Response model has no field
\* for: the collaborator saw them.
C11_Witness ==
    /\ Returned /\ ret.err = NoErr
    /\ doc.unknown
    /\ Len(collab) = 1 /\ collab[1].data.unknown

\* C12: a response whose Assertion carries a signature while the Response
\* element has none (or an empty signature value) is unsigned: Verify returns
\* ErrResponseNotSigned and the zero Response, for every issuer, recipient,
\* certificate and now.
AssertionOnlySigned ==
    Parses /\ ~ HasSignatureValue /\ Chardata(doc.AssertionSignatureValue) # ""

C12_AssertionOnlySignature ==
    (Returned /\ AssertionOnlySigned) =>
        /\ ret.err = ErrResponseNotSigned
        /\ ret.response = ZeroResponse
        /\ collab = << >>

\* An assertion-only signature on a response that would pass every other
\* check.
C12_Witness ==
    /\ Returned /\ AssertionOnlySigned
    /\ IssuerOK /\ RecipientOK /\ InWindow
    /\ ret.err = ErrResponseNotSigned

\* The input is base64 of a well-formed Response document, with parsable
\* times, that lacks Issuer, SubjectConfirmationData or Conditions.
LacksRequired ==
    /\ DecodeString(args.samlResponse).err = NoErr
    /\ doc.syntax = "ok" /\ doc.root = "Response"
    /\ TimeAttrOK(doc.NotBefore) /\ TimeAttrOK(doc.NotOnOrAfter)
    /\ TimeAttrOK(doc.SCDNotOnOrAfter)
    /\ (IssuerAbsent(doc) \/ ConfirmationDataAbsent(doc) \/ ConditionsAbsent(doc))

ParseErrors == { ErrXMLSyntax, ErrXMLUnmarshal, ErrTimeParse }

\* C13: a base64-decodable, well-formed Response document that lacks Issuer,
\* SubjectConfirmationData or Conditions is rejected with a parse error,
\* before the signature gate and the issuer, recipient and time checks.
C13_MissingElementRejectedAtParse ==
    (Returned /\ LacksRequired) => ret.err \in ParseErrors

\* The verdict of the signature collaborator on the document of the call when
\* it is handed the certificate c.
CollaboratorVerdict(c) ==
    SignatureVerify(Unmarshal(doc).response.Signature, c, doc)

C18_ParsedUnaltered ==
    (Returned /\ ret.err = NoErr) =>
        /\ ret.response.Assertion.Subject.NameID.Value = Chardata(doc.NameID)
        /\ ret.response.Assertion.AttributeStatement.Attributes = doc.Attributes

\* An accepted response with three attributes, the first and the last equal.
C18_Witness ==
    /\ Returned /\ ret.err = NoErr
    /\ args.now > DocNotBefore /\ args.now < DocNotOnOrAfter
    /\ Chardata(doc.NameID) = "bob"
    /\ Len(doc.Attributes) = 3
    /\ doc.Attributes[1] = doc.Attributes[3]
    /\ doc.Attributes[1] # doc.Attributes[2]
    /\ ret.response.Assertion.AttributeStatement.Attributes = doc.Attributes

----------------------------------------------------------------------------
\* Vocabulary of the properties of the extractor, in terms of its input

MReturned == mpc = "returned"

\* The certificate value decodes and parses.
CertOK == md.X509Certificate.encoding = "std" /\ md.X509Certificate.der.wellFormed

\* The positions of the entries whose binding is exactly the HTTP-Redirect URI.
RedirectEntries ==
    { i \in 1 .. Len(md.SingleSignOnServices) :
        md.SingleSignOnServices[i].Binding =
            "urn:oasis:names:tc:SAML:2.0:bindings:HTTP-Redirect" }

FirstRedirectEntry ==
    CHOOSE i \in RedirectEntries : \A j \in RedirectEntries : i <= j

\* C15: when the certificate decodes and parses and no SingleSignOnService
\* entry has exactly the HTTP-Redirect binding, the extractor returns
\* ErrNoRedirectBinding and selects nothing.
C15_NoRedirectBinding ==
    (MReturned /\ CertOK /\ RedirectEntries = { }) =>
        mret = [ issuer |-> "", cert |-> NilCert, url |-> NilURL,
                 err |-> ErrNoRedirectBinding ]

\* Several entries, none of them HTTP-Redirect, one differing only in case.
C15_Witness ==
    /\ MReturned /\ CertOK /\ RedirectEntries = { }
    /\ Len(md.SingleSignOnServices) >= 2
    /\ \E i \in 1 .. Len(md.SingleSignOnServices) :
          md.SingleSignOnServices[i].Binding =
              "urn:oasis:names:tc:saml:2.0:bindings:http-redirect"
    /\ mret.err = ErrNoRedirectBinding

\* What a successful extraction returns when it selects the entry at position i.
Selected(i) ==
    /\ mret.err = NoErr
    /\ mret.issuer = md.EntityID
    /\ mret.cert = << [ PublicKey |-> md.X509Certificate.der.PublicKey,
                         NotAfter |-> md.X509Certificate.der.NotAfter ] >>
    /\ mret.url =
         << [ base |-> md.SingleSignOnServices[i].Location.base,
              RawQuery |-> md.SingleSignOnServices[i].Location.RawQuery ] >>

\* C16 as stated: when the certificate decodes and parses and at least one
\* HTTP-Redirect entry has a well-formed location, the extractor returns with
\* no error the EntityID, the certificate and the location of the first
\* HTTP-Redirect entry in document order.
C16_AnyWellFormedRedirect ==
    (MReturned /\ CertOK
        /\ \E i \in RedirectEntries :
              md.SingleSignOnServices[i].Location.wellFormed) =>
        Selected(FirstRedirectEntry)

\* C16 as amended: when the certificate decodes and parses and the first
\* HTTP-Redirect entry in document order has a well-formed location, the
\* extractor returns the EntityID, the certificate and that entry's location,
\* with no error, whatever entries precede or follow it.
C16_FirstRedirectSelected ==
    (MReturned /\ CertOK /\ RedirectEntries # { }
        /\ md.SingleSignOnServices[FirstRedirectEntry].Location.wellFormed) =>
        /\ mret.err = NoErr
        /\ mret.issuer = md.EntityID
        /\ mret.cert = << [ PublicKey |-> md.X509Certificate.der.PublicKey,
                             NotAfter |-> md.X509Certificate.der.NotAfter ] >>
        /\ mret.url =
             << [ base |-> md.SingleSignOnServices[FirstRedirectEntry].Location.base,
                  RawQuery |->
                    md.SingleSignOnServices[FirstRedirectEntry].Location.RawQuery ] >>

\* The first HTTP-Redirect entry comes second, after another binding and
\* before an HTTP-Redirect entry with another location.
C16_Witness ==
    /\ MReturned /\ CertOK
    /\ Len(md.SingleSignOnServices) = 3
    /\ RedirectEntries = { 2, 3 }
    /\ md.SingleSignOnServices[2].Location.wellFormed
    /\ md.SingleSignOnServices[3].Location # md.SingleSignOnServices[2].Location
    /\ mret.err = NoErr
    /\ mret.url # NilURL
    /\ mret.url[1].base = md.SingleSignOnServices[2].Location.base

----------------------------------------------------------------------------
\* The RelayState parameter of the URL a response redirects to, as the
\* identity provider reads it.
RelayStateOf(location) == ValuesGet(Query(location), ParamRelayState)

\* C20: once /setup has stored a redirect URL, /initiate?relay_state=V
\* redirects to that URL with a RelayState query parameter equal to V.
C20_HelloRelayState ==
    (hresp.handler = "initiate" /\ hresp.status = StatusFound) =>
        /\ hresp.location[1].base = hello.redirectURL[1].base
        /\ RelayStateOf(hresp.location[1]) = hresp.relay

----------------------------------------------------------------------------
\* The parameters of a query other than RelayState, as the identity provider
\* reads them.
OtherParams(text) ==
    [ k \in DOMAIN Query(text) \ { ParamRelayState } |-> Query(text)[k] ]

\* C19: in the persistent example, /initiate?relay_state=V redirects to the
\* stored redirect URL, its other query parameters kept, with a RelayState
\* parameter that decodes to V; /acs puts the RelayState form field in its
\* output only after Verify succeeded, and unmodified; the verdict of Verify
\* is the one of the stored trust anchor and the posted response, whatever
\* the relay state is.
C19_PersistRelayState ==
    /\ (presp.handler = "initiate" /\ presp.status = StatusFound) =>
          /\ presp.location[1].base = conns[presp.id].RedirectURL.base
          /\ RelayStateOf(presp.location[1]) = presp.relay
          /\ OtherParams(presp.location[1])
                = OtherParams(conns[presp.id].RedirectURL)
    /\ (presp.handler = "acs" /\ presp.request # << >>) =>
          /\ presp.echo # << >> <=> presp.verr = NoErr
          /\ presp.echo # << >> => presp.echo[1] = presp.relay
          /\ presp.verr =
                Verify(presp.request[1].form.SAMLResponse,
                       conns[presp.id].Issuer,
                       [ PublicKey |-> conns[presp.id].X509.PublicKey,
                         NotAfter |-> conns[presp.id].X509.NotAfter ],
                       ConnectionRecipient(presp.id),
                       presp.request[1].now).err
    /\ (presp.handler = "acs" /\ presp.request = << >>) => presp.echo = << >>

\* A redirect from a stored URL that has parameters of its own, with a relay
\* state that needs escaping.
C19_Witness ==
    /\ presp.handler = "initiate" /\ presp.status = StatusFound
    /\ presp.relay = << "a", "&", "b", "=", "a" >>
    /\ DOMAIN OtherParams(conns[presp.id].RedirectURL) # { }
    /\ RelayStateOf(presp.location[1]) = presp.relay

\* A login that Verify accepted, its relay state echoed.
C19_WitnessAcs ==
    /\ presp.handler = "acs" /\ presp.verr = NoErr
    /\ presp.echo = << << "+", " ", "b" >> >>

----------------------------------------------------------------------------
\* What the call of goroutine c returns when it runs alone.
Alone(c) ==
    LET a == frames[c].args
        v == Verify(a.samlResponse, a.issuer, a.cert, a.recipient, a.now)
    IN [ response |-> v.response, err |-> v.err ]

\* C14: the result of a call of Verify is the function of its five arguments
\* that the call computes alone, whatever calls run at the same time in
\* other goroutines and whatever calls ran before it.
C14_NoInterference ==
    \A c \in DOMAIN frames :
        frames[c].pc = "done" => frames[c].ret = Alone(c)

\* Two calls with the same response and different instants, one accepted and
\* one expired.
C14_Witness ==
    /\ DOMAIN frames # { }
    /\ frames[1].pc = "done" /\ frames[2].pc = "done"
    /\ frames[1].args.samlResponse = frames[2].args.samlResponse
    /\ frames[1].args.now # frames[2].args.now
    /\ frames[1].ret.err = NoErr
    /\ frames[2].ret.err = ErrAssertionExpired

----------------------------------------------------------------------------
\* C21: a certificate value that is not base64 yields the decode error, and
\* decoded bytes that are no certificate yield the certificate parse error,
\* whether the metadata has an HTTP-Redirect entry or not.
C21_CertificateFirst ==
    MReturned =>
        /\ md.X509Certificate.encoding # "std" => mret.err = ErrCorruptInput
        /\ (md.X509Certificate.encoding = "std"
              /\ ~ md.X509Certificate.der.wellFormed) =>
                 mret.err = ErrCertificate

\* Bytes that are no certificate, in metadata without any HTTP-Redirect entry.
C21_Witness ==
    /\ MReturned
    /\ md.X509Certificate.encoding = "std"
    /\ ~ md.X509Certificate.der.wellFormed
    /\ Len(md.SingleSignOnServices) >= 1
    /\ RedirectEntries = { }
    /\ mret.err = ErrCertificate

\* C22: when the first HTTP-Redirect entry has a malformed location, the
\* extractor returns the URL parse error and no URL, whatever entries follow.
C22_NoFallback ==
    (MReturned /\ CertOK /\ RedirectEntries # { }
        /\ ~ md.SingleSignOnServices[FirstRedirectEntry].Location.wellFormed) =>
        /\ mret.err = ErrURLParse
        /\ mret.url = NilURL

\* A malformed HTTP-Redirect location followed by a well-formed one.
C22_Witness ==
    /\ MReturned /\ CertOK
    /\ Len(md.SingleSignOnServices) >= 2
    /\ RedirectEntries = { 1, 2 }
    /\ ~ md.SingleSignOnServices[1].Location.wellFormed
    /\ md.SingleSignOnServices[2].Location.wellFormed
    /\ mret.err = ErrURLParse

\* C23: the signature collaborator is invoked at most once per call, and
\* exactly when the input decodes, parses and has a non-empty signature
\* value.
C23_SingleShot ==
    Returned =>
        /\ Len(collab) <= 1
        /\ Len(collab) = 1 <=> (Parses /\ HasSignatureValue)

\* A call whose one invocation of the collaborator failed.
C23_Witness ==
    /\ Returned /\ Parses /\ HasSignatureValue
    /\ ~ SignedByCert
    /\ Len(collab) = 1
    /\ ret.err = ErrSignature

\* C24: whenever the extractor returns an error, the issuer is empty and the
\* certificate and the URL are nil.
C24_NoPartialAnchor ==
    (MReturned /\ mret.err # NoErr) =>
        /\ mret.issuer = ""
        /\ mret.cert = NilCert
        /\ mret.url = NilURL

----------------------------------------------------------------------------
\* The issuer and the certificate that one upload to /setup stores: its
\* EntityID and the certificate of its KeyDescriptor, when the document
\* decodes, the certificate parses and the HTTP-Redirect location parses.
FromOneUpload(issuer, cert) ==
    \E u \in HelloUploads :
        /\ u.xmlOK
        /\ u.metadata.X509Certificate.encoding = "std"
        /\ u.metadata.X509Certificate.der.wellFormed
        /\ u.metadata.SingleSignOnServices[1].Binding =
              "urn:oasis:names:tc:SAML:2.0:bindings:HTTP-Redirect"
        /\ u.metadata.SingleSignOnServices[1].Location.wellFormed
        /\ issuer = u.metadata.EntityID
        /\ cert = << [ PublicKey |-> u.metadata.X509Certificate.der.PublicKey,
                       NotAfter |-> u.metadata.X509Certificate.der.NotAfter ] >>

\* C30: in the hello-world example, whatever the interleaving of /setup and
\* /acs requests, the issuer and the certificate that /acs passes to Verify
\* come from one and the same upload, and /initiate redirects to a URL that a
\* /setup has stored.
C30_HelloAnchorFromOneUpload ==
    /\ hresp.handler = "acs" =>
          FromOneUpload(hresp.call[1].issuer, hresp.call[1].cert)
    /\ hresp.handler = "initiate" => hresp.status = StatusFound

----------------------------------------------------------------------------
\* Vocabulary of the properties of the todo app

\* The three columns of the trust anchor of an account.
StoredAnchor(a) ==
    << taccounts[a].saml_issuer, taccounts[a].saml_x509,
       taccounts[a].saml_redirect_url >>

\* The response is signed with the key of the certificate stored for the
\* account, names the stored issuer and the account as its recipient, and
\* the instant is inside its window.
VerifiedFor(data, a, now) ==
    /\ taccounts[a].exists
    /\ taccounts[a].saml_x509 # << >>
    /\ taccounts[a].saml_issuer # << >>
    /\ Chardata(data.SignatureValue) # ""
    /\ data.signer = taccounts[a].saml_x509[1].PublicKey
    /\ Chardata(data.Issuer) = taccounts[a].saml_issuer[1]
    /\ Chardata(data.Recipient) =
          (IF a = "a1" THEN "http://localhost:8080/accounts/a1/saml"
           ELSE "http://localhost:8080/accounts/a2/saml")
    /\ data.NotBefore[1] <= now
    /\ now <= data.NotOnOrAfter[1]
    /\ now <= data.SCDNotOnOrAfter[1]

\* C25: a saml/acs request gets past Verify only with a response that
\* verifies against the trust anchor stored for the account of its path;
\* the user it then finds or creates belongs to that account, and so does
\* the user of the session it issues.
C25_LoginWithinAccount ==
    [][ \A w \in AcsWorkers :
          /\ (tacs[w].pc = "idle" /\ tacs'[w].pc # "idle") =>
                /\ tacs'[w].pc = "lookup"
                /\ VerifiedFor(tacs'[w].data, tacs'[w].account, tnow)
          /\ (tacs[w].pc = "lookup" /\ tacs'[w].pc = "session") =>
                /\ tacs'[w].loginUser.id \in 1 .. Len(tusers)
                /\ tacs'[w].loginUser = tusers[tacs'[w].loginUser.id]
                /\ tacs'[w].loginUser.account_id = tacs[w].account
          /\ (tacs[w].pc = "create" /\ tacs'[w].pc = "session") =>
                /\ tusers'[Len(tusers')].account_id = tacs[w].account
                /\ tacs'[w].loginUser = tusers'[Len(tusers')]
          /\ tacs'[w].pc = "session" => tacs[w].pc \in { "lookup", "create", "session" }
          /\ (tacs[w].pc = "session" /\ tacs'[w].pc = "idle"
                /\ tsessions' # tsessions) =>
                /\ Len(tsessions') = Len(tsessions) + 1
                /\ tusers[tsessions'[Len(tsessions')].user_id].account_id =
                      tacs[w].account
          /\ (treq' # treq /\ treq'.handler = "acs") =>
                \E v \in AcsWorkers : tacs[v].pc = "session" /\ tacs'[v].pc = "idle"
      ]_vars

\* A SAML login into an account whose lookup found no user although the
\* other account has a user with the same NameID.
C25_Witness ==
    /\ \E w \in AcsWorkers :
          /\ tacs[w].pc = "create"
          /\ tacs[w].account = "a2"
    /\ \E i \in 1 .. Len(tusers) :
          tusers[i].account_id = "a1" /\ tusers[i].saml_id = << "alice" >>
    /\ \A i \in 1 .. Len(tusers) :
          tusers[i].account_id = "a2" => tusers[i].saml_id = << >>

\* C26: there is at most one user per (account_id, saml_id), and a login
\* whose NameID has a user in the account logs into that user.
C26_OneUserPerSAMLID ==
    /\ \A i, j \in 1 .. Len(tusers) :
          ( /\ i # j
            /\ tusers[i].saml_id # << >>
            /\ tusers[i].account_id = tusers[j].account_id )
          => tusers[i].saml_id # tusers[j].saml_id
    /\ \A w \in DOMAIN tacs :
          tacs[w].pc = "session" =>
              /\ tacs[w].loginUser.id \in 1 .. Len(tusers)
              /\ tusers[tacs[w].loginUser.id].account_id = tacs[w].account
              /\ tusers[tacs[w].loginUser.id].saml_id = << tacs[w].samlUserID >>

\* Two first-time logins with the same NameID raced: the second insert
\* failed and there is one user.
C26_Witness ==
    /\ treq.err = ErrUniqueViolation
    /\ \E a \in TodoAccountIDs :
          Cardinality({ i \in 1 .. Len(tusers) :
                          /\ tusers[i].account_id = a
                          /\ tusers[i].saml_id = << "alice" >> }) = 1

\* C27: the trust anchor of an account changes only in a step of the
\* metadata handler for that account, whose request carries the session of
\* a user of that account.
C27_AnchorChangeAuthorized ==
    [][ \A a \in TodoAccountIDs :
          StoredAnchor(a)' # StoredAnchor(a) =>
              /\ treq'.handler = "metadata"
              /\ treq'.account = a
              /\ treq'.cookie \in 1 .. Len(tsessions)
              /\ tusers[tsessions[treq'.cookie].user_id].account_id = a
      ]_vars

\* An upload by a user of the account, while another account has a
\* session of its own.
C27_Witness ==
    /\ treq.handler = "metadata"
    /\ treq.err = NoErr
    /\ treq.account = "a1"
    /\ taccounts["a1"].saml_issuer # << >>
    /\ taccounts["a2"].exists
    /\ taccounts["a2"].saml_issuer = << >>

\* C28: a request whose session has expires_at earlier than the current
\* time is not authorized.
C28_ExpiredSessionRejected ==
    [][ ( /\ treq' # treq
          /\ treq'.handler = "account"
          /\ treq'.err = NoErr )
        => ~ ( tsessions[treq'.cookie].expires_at < tnow )
      ]_vars

----------------------------------------------------------------------------
\* Vocabulary of the property of metadata uploads

\* The results of the successful extractions: an entity id, a certificate
\* and a redirect URL of one and the same upload.
Extractions ==
    { GetEntityIDCertificateAndRedirectURL(DecodeMetadata(u).metadata) :
        u \in { v \in Uploads :
                  /\ DecodeMetadata(v).err = NoErr
                  /\ GetEntityIDCertificateAndRedirectURL(
                         DecodeMetadata(v).metadata).err = NoErr } }

\* C29: in each example a failed metadata upload leaves the stored trust
\* anchor as it was, and the three stored values are replaced together, by
\* the three results of one successful extraction: a row that an upload
\* changed holds one extraction, and so do the variables of hello-world
\* whenever no /setup is between its assignments.
C29_AnchorReplacedTogether ==
    [][ /\ ( /\ hresp' # hresp
             /\ hresp'.handler = "setup"
             /\ hresp'.status = StatusBadRequest ) => hello' = hello
        /\ ( \A w \in SetupWorkers : hsetup'[w].pc = "idle" ) =>
              \/ hello' = hello
              \/ \E ex \in Extractions :
                    /\ hello'.issuer = ex.issuer
                    /\ hello'.cert = ex.cert
                    /\ hello'.redirectURL = ex.url
        /\ \A id \in ConnIDs :
              ( conns[id].exists /\ conns'[id] # conns[id] ) =>
                  /\ presp'.handler = "metadata"
                  /\ presp'.status = StatusOK
                  /\ \E ex \in Extractions :
                        /\ conns'[id].Issuer = ex.issuer
                        /\ conns'[id].X509 = Raw(ex.cert[1])
                        /\ conns'[id].RedirectURL = String(ex.url[1])
        /\ \A a \in TodoAccountIDs :
              StoredAnchor(a)' # StoredAnchor(a) =>
                  /\ treq'.handler = "metadata"
                  /\ treq'.err = NoErr
                  /\ \E ex \in Extractions :
                        /\ taccounts'[a].saml_issuer = << ex.issuer >>
                        /\ taccounts'[a].saml_x509 = << Raw(ex.cert[1]) >>
                        /\ taccounts'[a].saml_redirect_url =
                              << String(ex.url[1]) >>
      ]_vars

====
